---- MODULE Spec2Model ----
(***************************************************************************)
(* Behaviour engine of the WALL-E robot (creegon/ECE-5725-code).           *)
(*                                                                         *)
(*   ActionRecorder     src/modules/action_recorder.py                     *)
(*   RecognitionHandler src/modules/recognition_handler.py                 *)
(*   SearchController   src/modules/search_controller.py                   *)
(*                                                                         *)
(* Time is counted in hundredths of a second (0.05 s = 5, 1.5 s = 150).    *)
(* Python's None is the string "none"; a call's return value is kept as a  *)
(* string ("none", "true", "false", or the name of the exception raised).  *)
(***************************************************************************)
EXTENDS Integers, Sequences, FiniteSets, TLC

VARIABLES
    \* ---- ActionRecorder fields (action_recorder.py:7-15)
    action_history,        \* list of {'type','direction','duration'}
    is_returning,
    return_action_index,
    current_action,        \* _current_action, NoAction for None
    action_start_time,     \* _action_start_time
    lock,                  \* _lock: 0 when free, else the thread holding it
    \* ---- time.time()
    now,
    \* ---- the threads calling into the recorder
    pc,                    \* per thread: where it stands inside a call
    arg,                   \* per thread: the arguments / locals of the call
    ret,                   \* what the last finished call returned
    \* ---- observation of a return-to-origin run (history variables)
    run,                   \* "none", "active", "done"; "off": not observed
    snapshot,              \* action_history when start_returning succeeded
    replayed,              \* the action_info of every replay of this run
    outcome,               \* observation: what the last step did with an
                           \*   action: "kept", "dropped" or "none"
    \* ---- RecognitionHandler fields (recognition_handler.py:11-21)
    recognition_counters,
    recognition_active_label,
    no_face_count,
    rh_ret,                \* return value of the last RecognitionHandler call
    rh_call,               \* observation: the name of that call
    streak_label,          \* observation: label of the current run of
    streak_len,            \*   consecutive update_counter calls, its length,
    streak_start,          \*   and the counters before its first call
    lost_run,              \* observation: consecutive on_face_lost calls made
                           \*   since no_face_count was 0 (-1: not counting)
    is_registering,
    register_name,         \* "" when no registration is under way
    register_count,
    lost_calls,            \* observation: on_face_lost calls made since the
                           \*   last on_face_detected call or reset
    \* ---- SearchController fields (search_controller.py:14-18)
    search_step,
    search_cycle,
    last_rotation_time,
    face_found_in_search,
    sc_ret,                \* return value of the last SearchController call
    advances               \* observation: advance_step calls since reset()

recorderVars == <<action_history, is_returning, return_action_index,
                  current_action, action_start_time, lock, pc, arg, ret,
                  run, snapshot, replayed, outcome>>
registrationVars == <<is_registering, register_name, register_count>>
recognitionVars == <<recognition_counters, recognition_active_label,
                     no_face_count, rh_ret, rh_call,
                     streak_label, streak_len, streak_start, lost_run,
                     registrationVars, lost_calls>>
searchVars == <<search_step, search_cycle, last_rotation_time,
                face_found_in_search, sc_ret, advances>>

VARIABLES
    \* ---- BehaviorController tracking state (behavior_controller.py:16-19)
    motor_on,              \* `self.motor' is set (the motor is enabled)
    face_centered,         \* _face_centered
    offset_confirm_count,  \* _offset_confirm_count
    last_offset_direction, \* _last_offset_direction, "none" for None
    track_pc,              \* "idle", or "rotating" inside _track_until_centered
    track_i,               \* loop index i of _track_until_centered
    current_direction,     \* its local current_direction
    track_offset,          \* observation: offset of the frame handed to the
                           \*   last track_face_position call
    track_debounced,       \* observation: _face_centered when that call began
    track_rotations,       \* observation: rotation pulses issued by that call
    same_run,              \* observation: consecutive off-centre frames with
    run_dir                \*   one direction seen since the face was centred

trackVars == <<motor_on, face_centered, offset_confirm_count,
               last_offset_direction, track_pc, track_i, current_direction,
               track_offset, track_debounced, track_rotations,
               same_run, run_dir>>

VARIABLES
    \* ---- InteractionHandler fields (interaction_handler.py:14-38)
    voice_wake_active,
    voice_wake_time,
    familiar_interaction_active,
    familiar_interaction_time,
    stranger_observation_active,
    stranger_observation_time,
    ultrasonic_scared_active,
    ultrasonic_scared_time,
    is_awake,
    is_playing_audio,
    blocking_action_active,
    ih_ret                 \* what the last InteractionHandler call returned

VoiceWakeTimer == <<voice_wake_active, voice_wake_time>>
FamiliarTimer == <<familiar_interaction_active, familiar_interaction_time>>
StrangerTimer == <<stranger_observation_active, stranger_observation_time>>
UltrasonicTimer == <<ultrasonic_scared_active, ultrasonic_scared_time>>
timerVars == <<VoiceWakeTimer, FamiliarTimer, StrangerTimer, UltrasonicTimer>>
interactionVars == <<timerVars, is_awake, is_playing_audio,
                     blocking_action_active, ih_ret>>

VARIABLES
    \* ---- WallE (main.py) and its threads
    state,                 \* self.state, a State name
    fear_action_done,      \* _fear_action_done (FALSE when absent)
    fear_start_time,       \* _fear_start_time
    voice_paused,          \* VoiceListener.paused
    main_pc,               \* main thread: where it stands in run()
    voice_pc,              \* voice-listener thread: inside which callback
    mover_pc,              \* background thread of move_for_duration
    main_move,             \* main thread: the motion its routine drives
    main_start,            \*   and the local start_time of that routine
    \* ---- MotorController (motor_controller.py)
    motor_is_moving,       \* MotorController.is_moving
    motor_cmd,             \* the last command given to the motor,
    motor_by,              \*   the thread that gave it,
    motor_seq,             \*   and a bit that flips with every command
    \* ---- observation of the current pass of the loop of run()
    tick_latch,            \* what it read in blocking_action_active
    tick_update,           \* the _update_* function it called
    tick_event             \* the touch event it handled

robotVars == <<state, fear_action_done, fear_start_time, voice_paused,
               main_pc, voice_pc, mover_pc, main_move, main_start>>
motorVars == <<motor_is_moving, motor_cmd, motor_by, motor_seq>>
tickVars == <<tick_latch, tick_update, tick_event>>
mainVars == <<robotVars, motorVars, tickVars>>

VARIABLES
    \* ---- BehaviorController.approach_familiar_person: its locals
    approach_pc,           \* where the call stands
    start_time,
    is_blocked,
    is_moving,
    obstacle_detected,     \* the ultrasonic reading of the current cycle
    \* ---- what the sensors will report during the call
    near_epochs,           \* the epochs in which an object is near
    stop_epoch             \* the epoch from which the face is close enough

approachVars == <<approach_pc, start_time, is_blocked, is_moving,
                  obstacle_detected, near_epochs, stop_epoch>>
VARIABLES
    \* ---- BehaviorController follow state (behavior_controller.py:21-24)
    smooth,                \* _smooth_eye_dist and _smooth_offset
    familiar_consecutive_actions,
    \* ---- observation of the last call of follow_familiar_person
    follow_burst,          \* the burst it drove and recorded, if any
    follow_ret,            \* what it returned
    action_run             \* corrective actions since the last cooldown
                           \*   or face-present cycle without an action

followVars == <<smooth, familiar_consecutive_actions, follow_burst,
                follow_ret, action_run>>
VARIABLES
    \* ---- ActionRecorder.execute_return_action: its locals
    replay_pc,             \* where the main thread stands in the return
    action_info,
    replay_step,           \* pulses of the current rotation given so far
    \* ---- observation of the replay of the current action
    on_time,               \* for how long the motor has been driven
    replay_cmd,            \* the drive command it was given
    \* ---- BehaviorController.check_obstacle_while_moving would say True
    obstacle_near

replayVars == <<replay_pc, action_info, replay_step, on_time, replay_cmd,
                obstacle_near>>
VARIABLES
    \* ---- InteractionHandler: the awake timer (interaction_handler.py:19-22)
    awake_time,
    last_activity_time,
    woke_at,               \* observation: the time of the last wake_up call
    active_at              \* observation: the time of the last wake_up or
                           \*   update_activity call

awakeVars == <<awake_time, last_activity_time, woke_at, active_at>>
VARIABLES
    \* ---- WallE: the passes of run() (main.py:651-816)
    frame_count,           \* kept modulo SAMPLE_INTERVAL, which is all that
                           \*   should_skip_registration_frame reads of it
    flinches,              \* observation: backward moves made since
                           \*   STRANGER_OBSERVE was last entered
    samples,               \* observation: successful samples, and calls of
    completions,           \*   on_complete, since the last
                           \*   start_registration
    heard,                 \* observation: the step was a wake phrase or a
                           \*   touch of 0.1 s: "woke", "refused" or "none"
    state_left             \* observation: the state the step has left, or
                           \*   "none"

lifeVars == <<frame_count, flinches, samples, completions, heard,
              state_left>>

VARIABLES
    \* ---- SearchController.center_face: its locals and those of
    \*      _do_center_rotation (search_controller.py:169-305)
    cf_pc,                 \* where the call is: "idle", "retry" (the head
                           \*   of the loop over the passes), "pulse",
                           \*   "record" (the end of a pass), "done"
    cf_retry,              \* retry
    cf_face,               \* the offset of face_rect
    cf_direction,          \* direction
    cf_step,               \* the pulses of the pass so far
    cf_rotate_time,        \* actual_rotate_time
    last_face_rect,        \* <<its offset>>, or <<>> for None
    cf_centered,           \* centered
    cf_overshot,           \* overshot
    cf_ret                 \* what center_face returned

centerVars == <<cf_pc, cf_retry, cf_face, cf_direction, cf_step,
                cf_rotate_time, last_face_rect, cf_centered,
                cf_overshot, cf_ret>>

VARIABLES
    \* ---- VoiceListener (voice_listener.py:100-226)
    listener_running,      \* running
    listener_pc,           \* the thread of _listen_loop: "top", "recorded",
                           \*   "callback", "ended"
    segment,               \* what the recorded audio says
    callback_step,         \* how far the callback has come
    callback_raised        \* observation: the last callback ended with an
                           \*   exception

listenerVars == <<listener_running, listener_pc, segment, callback_step,
                  callback_raised>>

VARIABLES
    \* ---- the process: __main__, WallE.run and WallE.cleanup
    \*      (main.py:651-847)
    running,               \* self.running
    proc_pc,               \* "top" and "body" of the loop of run(),
                           \*   "cleanup", "ended"
    in_handler,            \* control is in the except clause of __main__
    cleanup_step,          \* the next step of cleanup()
    released,              \* what cleanup() has stopped or released
    cleanups,              \* observation: the calls of cleanup() so far
    stopped_by             \* observation: what ended the loop

shutdownVars == <<running, proc_pc, in_handler, cleanup_step, released,
                  cleanups, stopped_by>>

VARIABLES
    \* ---- on_voice_command (main.py:191-233)
    last_command,          \* observation: the command the last step of the
                           \*   voice thread was called with, "none" after
                           \*   any other step
    \* ---- follow_familiar_person (behavior_controller.py:308-431)
    follow_calls           \* observation: the calls the last cycle made on
                           \*   the recorder and the motor, in their order

lateVars == <<shutdownVars, last_command, follow_calls>>
extraVars == <<awakeVars, lifeVars, centerVars, listenerVars, lateVars>>
routineVars == <<approachVars, followVars, replayVars, extraVars>>

behaviourVars == <<trackVars, interactionVars, mainVars, routineVars>>
vars == <<recorderVars, recognitionVars, searchVars, now, behaviourVars>>

(***************************************************************************)
(* Bounds of the model.                                                    *)
(***************************************************************************)
\* the readings of the sensors change NEpochs - 1 times at most, every
\* EpochLen hundredths of a second
NEpochs == 4
EpochLen == 250
\* the clock stops at MaxTime
MaxTime == 5
\* start_action / record are not called once the history holds MaxHist entries
MaxHist == 2
\* the observation counter `advances' saturates at MaxAdvances
MaxAdvances == 12
\* the clock of the search stops at MaxSearchClock
MaxSearchClock == 200
\* the clock of the timers stops at MaxTimerClock
MaxTimerClock == 5500
\* SpecLife: the age beyond which a time stamp is no longer told from an
\* older one; the camera loses a face only when the frames without one
\* are this close to NO_FACE_RESET_COUNT
LifeHorizon == 75
LifeLostRun == 2

\* the amounts by which the clock is seen to advance between two steps
TickSteps == {4, 5}
\* the durations callers hand to record()
RecordDurations == {4, 5, 7}

(***************************************************************************)
(* config.py                                                               *)
(***************************************************************************)
EMOTION_CONFIRM_COUNT == 3
NO_FACE_RESET_COUNT == 30
SEARCH_CYCLES == 4
SEARCH_ROTATE_PAUSE == 50
SEARCH_45DEG_DURATION == 150

\* the 0.05 s floor of _finish_current_action and record
MIN_DURATION == 5

Min(a, b) == IF a < b THEN a ELSE b
Max(a, b) == IF a > b THEN a ELSE b

(***************************************************************************)
(*                          ActionRecorder                                 *)
(***************************************************************************)
Threads == {1, 2}

\* the (type, direction) pairs callers pass: the four of the call sites
\* (behavior_controller.py, search_controller.py, main.py) and one whose
\* direction ("up") is not a key of reverse_map
Calls == {[type |-> "move", direction |-> "forward"],
          [type |-> "move", direction |-> "backward"],
          [type |-> "rotate", direction |-> "left"],
          [type |-> "rotate", direction |-> "right"],
          [type |-> "rotate", direction |-> "up"]}

\* the pairs passed where two threads call at once
MoverCalls == {[type |-> "move", direction |-> "forward"],
               [type |-> "rotate", direction |-> "left"]}

NoAction == [type |-> "none", direction |-> "none"]
NoArg == [type |-> "none", direction |-> "none", duration |-> 0]

InitRecorder ==
    /\ action_history = <<>>
    /\ is_returning = FALSE
    /\ return_action_index = 0
    /\ current_action = NoAction
    /\ action_start_time = 0
    /\ lock = 0
    /\ pc = [t \in Threads |-> "idle"]
    /\ arg = [t \in Threads |-> NoArg]
    /\ ret = "none"
    /\ run \in {"none", "off"}
    /\ snapshot = <<>>
    /\ replayed = <<>>
    /\ outcome = "none"

\* `with self._lock:' entered by thread t
AcquireUnguarded(t) == TRUE
Acquire(t) == lock = 0

\* the lock held by thread t while it stays inside the block
Hold(t) == lock' = t

\* leaving the `with self._lock:' block
Release == lock' = 0

\* a call returns value v to thread t
Return(t, v) ==
    /\ pc' = [pc EXCEPT ![t] = "idle"]
    /\ arg' = [arg EXCEPT ![t] = NoArg]
    /\ ret' = v

Goto(t, label) == pc' = [pc EXCEPT ![t] = label]

\* the observation of a finished run is dropped when the next call begins
ForgetDoneRun ==
    IF run = "done"
    THEN run' = "none" /\ snapshot' = <<>> /\ replayed' = <<>>
    ELSE UNCHANGED <<run, snapshot, replayed>>

\* a run is observed from the moment start_returning succeeds
ObserveStart ==
    IF run = "off"
    THEN UNCHANGED <<run, snapshot, replayed>>
    ELSE run' = "active" /\ snapshot' = action_history /\ replayed' = <<>>

\* clear() called from outside ends the observation
ObserveClear ==
    IF run = "off"
    THEN UNCHANGED <<run, snapshot, replayed>>
    ELSE run' = "none" /\ snapshot' = <<>> /\ replayed' = <<>>

\* _finish_current_action: history, slot and start time after it
FinishAlways(hist, cur, start) ==
    IF cur = NoAction
    THEN <<hist, cur, start>>
    ELSE <<Append(hist, [type |-> cur.type, direction |-> cur.direction,
                         duration |-> now - start]),
           NoAction, 0>>
finish_current_action(hist, cur, start) ==
    IF cur = NoAction
    THEN <<hist, cur, start>>
    ELSE LET duration == now - start
         IN  <<IF duration >= MIN_DURATION
               THEN Append(hist, [type |-> cur.type,
                                  direction |-> cur.direction,
                                  duration |-> duration])
               ELSE hist,
               NoAction, 0>>

\* the body of stop_action, run with the lock held
StopActionBody ==
    LET f == IF current_action # NoAction
             THEN finish_current_action(action_history, current_action,
                                        action_start_time)
             ELSE <<action_history, current_action, action_start_time>>
    IN  /\ action_history' = f[1]
        /\ current_action' = f[2]
        /\ action_start_time' = f[3]

\* start_action, line 20: the unlocked test of is_returning
StartActionUnchecked(t, a) ==
    /\ pc[t] = "idle"
    /\ Len(action_history) < MaxHist
    /\ Goto(t, "sa_lock")
    /\ arg' = [arg EXCEPT ![t] = [type |-> a.type,
                                  direction |-> a.direction,
                                  duration |-> 0]]
    /\ ForgetDoneRun
    /\ UNCHANGED <<action_history, is_returning, return_action_index,
                   current_action, action_start_time, lock, ret>>
start_action_check(t, a) ==
    /\ pc[t] = "idle"
    /\ Len(action_history) < MaxHist
    /\ IF is_returning
       THEN Return(t, "none")
       ELSE /\ Goto(t, "sa_lock")
            /\ arg' = [arg EXCEPT ![t] = [type |-> a.type,
                                          direction |-> a.direction,
                                          duration |-> 0]]
            /\ UNCHANGED ret
    /\ ForgetDoneRun
    /\ UNCHANGED <<action_history, is_returning, return_action_index,
                   current_action, action_start_time, lock>>

\* start_action, lines 23-26: the lock is taken and an unfinished action
\* is finished first
start_action_finish(t) ==
    /\ pc[t] = "sa_lock"
    /\ Acquire(t)
    /\ Hold(t)
    /\ StopActionBody
    /\ Goto(t, "sa_set")
    /\ UNCHANGED <<is_returning, return_action_index, arg, ret,
                   run, snapshot, replayed>>

\* start_action, lines 28-32: the new action takes the slot, lock released
start_action_set(t) ==
    /\ pc[t] = "sa_set"
    /\ current_action' = [type |-> arg[t].type, direction |-> arg[t].direction]
    /\ action_start_time' = now
    /\ Release
    /\ Return(t, "none")
    /\ UNCHANGED <<action_history, is_returning, return_action_index,
                   run, snapshot, replayed>>

\* stop_action, lines 34-37
stop_action(t) ==
    /\ pc[t] = "idle"
    /\ Acquire(t)
    /\ StopActionBody
    /\ Release
    /\ Return(t, "none")
    /\ ForgetDoneRun
    /\ UNCHANGED <<is_returning, return_action_index>>

\* record, lines 63-68: the unlocked tests
record_check(t, a, d) ==
    /\ pc[t] = "idle"
    /\ Len(action_history) < MaxHist
    /\ IF is_returning \/ d < MIN_DURATION
       THEN Return(t, "none")
       ELSE /\ Goto(t, "rc_lock")
            /\ arg' = [arg EXCEPT ![t] = [type |-> a.type,
                                          direction |-> a.direction,
                                          duration |-> d]]
            /\ UNCHANGED ret
    /\ ForgetDoneRun
    /\ UNCHANGED <<action_history, is_returning, return_action_index,
                   current_action, action_start_time, lock>>

\* record, lines 70-77: the append under the lock
record_append(t) ==
    /\ pc[t] = "rc_lock"
    /\ Acquire(t)
    /\ Release
    /\ action_history' = Append(action_history,
                                [type |-> arg[t].type,
                                 direction |-> arg[t].direction,
                                 duration |-> arg[t].duration])
    /\ Return(t, "none")
    /\ UNCHANGED <<is_returning, return_action_index, current_action,
                   action_start_time, run, snapshot, replayed>>

\* the body of clear, lines 82-85
ClearBody ==
    /\ action_history' = <<>>
    /\ current_action' = NoAction
    /\ action_start_time' = 0

\* clear, lines 81-82: called, waiting for the lock
clear(t) ==
    /\ pc[t] = "idle"
    /\ Goto(t, "cl_lock")
    /\ ForgetDoneRun
    /\ UNCHANGED <<action_history, is_returning, return_action_index,
                   current_action, action_start_time, lock, arg, ret>>

\* clear, lines 82-85
clear_body(t) ==
    /\ pc[t] = "cl_lock"
    /\ Acquire(t)
    /\ ClearBody
    /\ Release
    /\ Return(t, "none")
    /\ ObserveClear
    /\ UNCHANGED <<is_returning, return_action_index>>

\* get_reverse_direction, lines 93-100
reverse_map == [left |-> "right", right |-> "left",
                forward |-> "backward", backward |-> "forward"]
get_reverse_direction(direction) ==
    IF direction \in DOMAIN reverse_map THEN reverse_map[direction]
    ELSE direction

\* start_returning, line 106: stop_action() finishes any ongoing action
start_returning_stop(t) ==
    /\ pc[t] = "idle"
    /\ Acquire(t)
    /\ StopActionBody
    /\ Release
    /\ Goto(t, "sr_has")
    /\ ForgetDoneRun
    /\ UNCHANGED <<is_returning, return_action_index, arg, ret>>

\* start_returning, lines 108-109: has_actions()
start_returning_has(t) ==
    /\ pc[t] = "sr_has"
    /\ IF Len(action_history) > 0
       THEN Goto(t, "sr_flag") /\ UNCHANGED <<arg, ret>>
       ELSE Return(t, "false")
    /\ UNCHANGED <<action_history, is_returning, return_action_index,
                   current_action, action_start_time, lock,
                   run, snapshot, replayed>>

\* start_returning, line 112
start_returning_flag(t) ==
    /\ pc[t] = "sr_flag"
    /\ is_returning' = TRUE
    /\ Goto(t, "sr_index")
    /\ UNCHANGED <<action_history, return_action_index, current_action,
                   action_start_time, lock, arg, ret, run, snapshot, replayed>>

\* start_returning, lines 113-114
StartReturningIndexFirst(t) ==
    /\ pc[t] = "sr_index"
    /\ return_action_index' = 0
    /\ Return(t, "true")
    /\ ObserveStart
    /\ UNCHANGED <<action_history, is_returning, current_action,
                   action_start_time, lock>>
start_returning_index(t) ==
    /\ pc[t] = "sr_index"
    /\ return_action_index' = Len(action_history) - 1
    /\ Return(t, "true")
    /\ ObserveStart
    /\ UNCHANGED <<action_history, is_returning, current_action,
                   action_start_time, lock>>

\* get_next_return_action, lines 120-132 (Python indexes a list from 0)
get_next_return_action ==
    LET action == action_history[return_action_index + 1]
    IN  [type |-> action.type,
         direction |-> get_reverse_direction(action.direction),
         original_direction |-> action.direction,
         duration |-> action.duration,
         index |-> return_action_index,
         total |-> Len(action_history)]

\* execute_return_action, lines 146-150: nothing left, finish_returning()
\* clears the flag (line 142)
execute_return_action_finish(t) ==
    /\ pc[t] = "idle"
    /\ return_action_index < 0
    /\ is_returning' = FALSE
    /\ Goto(t, "fr_clear")
    /\ UNCHANGED <<action_history, return_action_index, current_action,
                   action_start_time, lock, arg, ret, run, snapshot, replayed>>

\* finish_returning, line 143: clear(); execute_return_action returns True
finish_returning_clear(t) ==
    /\ pc[t] = "fr_clear"
    /\ Acquire(t)
    /\ ClearBody
    /\ Release
    /\ Return(t, "true")
    /\ run' = IF run = "active" THEN "done" ELSE run
    /\ UNCHANGED <<is_returning, return_action_index, snapshot, replayed>>

\* execute_return_action, line 146 with line 120 raising IndexError: the
\* cursor points past the end of the history
execute_return_action_raise(t) ==
    /\ pc[t] = "idle"
    /\ return_action_index >= Len(action_history)
    /\ Return(t, "IndexError")
    /\ ForgetDoneRun
    /\ UNCHANGED <<action_history, is_returning, return_action_index,
                   current_action, action_start_time, lock>>

\* execute_return_action, lines 146-180: the action under the cursor is
\* replayed (motor pulses or sleep)
execute_return_action_replay(t) ==
    /\ pc[t] = "idle"
    /\ return_action_index >= 0
    /\ return_action_index < Len(action_history)
    /\ Goto(t, "er_advance")
    /\ replayed' = IF run = "active"
                   THEN Append(replayed, get_next_return_action)
                   ELSE replayed
    /\ UNCHANGED <<action_history, is_returning, return_action_index,
                   current_action, action_start_time, lock, arg, ret,
                   run, snapshot>>

\* execute_return_action, lines 181-182: advance_return_index()
execute_return_action_advance(t) ==
    /\ pc[t] = "er_advance"
    /\ return_action_index' = return_action_index - 1
    /\ Return(t, "false")
    /\ UNCHANGED <<action_history, is_returning, current_action,
                   action_start_time, lock, run, snapshot, replayed>>

\* time.time() moves on. The recorder reads the clock only as a difference
\* to _action_start_time, so the clock is followed only while an action is in
\* flight.
Tick(d) ==
    /\ current_action # NoAction
    /\ now + d <= MaxTime
    /\ now' = now + d

\* With no action in flight the recorder holds no time stamp: the origin of
\* the clock is moved to the present.
ClockAfterStep == now' = IF current_action' = NoAction THEN 0 ELSE now

\* a step of clear() or of the clear() inside finish_returning()
ClearStep ==
    \E t \in Threads : pc[t] \in {"cl_lock", "fr_clear"} /\ pc'[t] = "idle"

\* a step that is a call of start_action or of record by thread t
RecordingCall(t) ==
    \/ \E a \in Calls : start_action_check(t, a)
    \/ \E a \in Calls, d \in RecordDurations : record_check(t, a, d)

\* what the step did: an action was appended, the action in flight was
\* finished without being appended, or a call of start_action or record
\* came back at once because is_returning was set
OutcomeAfterStep ==
    outcome' = IF Len(action_history') > Len(action_history) THEN "kept"
               ELSE IF /\ current_action # NoAction
                       /\ current_action' = NoAction
                       /\ ~ClearStep
                    THEN "dropped"
                    ELSE IF \E t \in Threads :
                               /\ is_returning
                               /\ RecordingCall(t)
                               /\ pc'[t] = "idle"
                         THEN "refused"
                         ELSE "none"

\* a step of thread t inside the recorder, with the observations of it
Step(A) ==
    /\ A
    /\ ClockAfterStep
    /\ OutcomeAfterStep
    /\ UNCHANGED <<recognitionVars, searchVars, behaviourVars>>

RecorderStep(t, calls) ==
    \/ Step(\E a \in calls : start_action_check(t, a))
    \/ Step(start_action_finish(t))
    \/ Step(start_action_set(t))
    \/ Step(stop_action(t))
    \/ Step(\E a \in calls, d \in RecordDurations : record_check(t, a, d))
    \/ Step(record_append(t))
    \/ Step(clear(t))
    \/ Step(clear_body(t))
    \/ Step(start_returning_stop(t))
    \/ Step(start_returning_has(t))
    \/ Step(start_returning_flag(t))
    \/ Step(start_returning_index(t))
    \/ Step(execute_return_action_finish(t))
    \/ Step(finish_returning_clear(t))
    \/ Step(execute_return_action_raise(t))
    \/ Step(execute_return_action_replay(t))
    \/ Step(execute_return_action_advance(t))

(***************************************************************************)
(*                        RecognitionHandler                               *)
(***************************************************************************)
\* the keys of recognition_counters
Labels == {"familiar", "stranger"}
\* the labels callers pass; "unknown" stands for any label that is no key
LabelInputs == Labels \cup {"unknown"}

ZeroCounters == [key \in Labels |-> 0]

InitRecognitionRest ==
    /\ recognition_counters = ZeroCounters
    /\ recognition_active_label = "none"
    /\ rh_ret = "none"
    /\ rh_call = "none"
    /\ streak_label = "none"
    /\ streak_len = 0
    /\ streak_start = ZeroCounters
    /\ lost_run = 0
    /\ is_registering = FALSE
    /\ register_name = ""
    /\ register_count = 0
    /\ lost_calls = 0
InitRecognition == no_face_count = 0 /\ InitRecognitionRest

\* the loop of update_counter, lines 24-32
UpdatedNoInhibit(counters, label) ==
    [key \in Labels |->
        IF key = label THEN Min(EMOTION_CONFIRM_COUNT, counters[key] + 1)
        ELSE counters[key]]
UpdatedNoSaturation(counters, label) ==
    [key \in Labels |->
        IF key = label THEN counters[key] + 1
        ELSE IF counters[key] > 0 THEN counters[key] - 1 ELSE counters[key]]
Updated(counters, label) ==
    [key \in Labels |->
        IF key = label THEN Min(EMOTION_CONFIRM_COUNT, counters[key] + 1)
        ELSE IF counters[key] > 0 THEN counters[key] - 1 ELSE counters[key]]

\* the loop of decay_counters, lines 39-41
Decayed(counters) ==
    [key \in Labels |->
        IF counters[key] > 0 THEN counters[key] - 1 ELSE counters[key]]

\* get_count, lines 43-44
get_count(label) ==
    IF label \in DOMAIN recognition_counters
    THEN recognition_counters[label] ELSE 0

\* is_confirmed, lines 46-47
IsConfirmedStrict(label) == get_count(label) > EMOTION_CONFIRM_COUNT
is_confirmed(label) == get_count(label) >= EMOTION_CONFIRM_COUNT

\* a call other than on_face_lost ends the run of on_face_lost calls; a new
\* run can be counted from a state whose no_face_count is 0
LostRunBroken == lost_run' = IF no_face_count' = 0 THEN 0 ELSE -1

StreakBroken ==
    /\ streak_label' = "none"
    /\ streak_len' = 0
    /\ streak_start' = ZeroCounters

\* update_counter, lines 23-32
update_counter(label) ==
    /\ rh_call' = "update_counter"
    /\ recognition_counters' = Updated(recognition_counters, label)
    /\ rh_ret' = "none"
    /\ IF streak_label = label
       THEN /\ streak_len' = Min(streak_len + 1, EMOTION_CONFIRM_COUNT)
            /\ UNCHANGED <<streak_label, streak_start>>
       ELSE /\ streak_label' = label
            /\ streak_len' = 1
            /\ streak_start' = recognition_counters
    /\ UNCHANGED <<recognition_active_label, no_face_count>>
    /\ LostRunBroken
    /\ UNCHANGED <<registrationVars, lost_calls>>

\* reset_counters, lines 34-36
reset_counters ==
    /\ rh_call' = "reset_counters"
    /\ recognition_counters' = ZeroCounters
    /\ rh_ret' = "none"
    /\ StreakBroken
    /\ UNCHANGED <<recognition_active_label, no_face_count>>
    /\ LostRunBroken
    /\ UNCHANGED <<registrationVars, lost_calls>>

\* decay_counters, lines 38-41
decay_counters ==
    /\ rh_call' = "decay_counters"
    /\ recognition_counters' = Decayed(recognition_counters)
    /\ rh_ret' = "none"
    /\ StreakBroken
    /\ UNCHANGED <<recognition_active_label, no_face_count>>
    /\ LostRunBroken
    /\ UNCHANGED <<registrationVars, lost_calls>>

\* the next value of the observation lost_run on a call of on_face_lost
LostRunCounted ==
    lost_run' = IF lost_run >= 0
                THEN (IF lost_run + 1 >= NO_FACE_RESET_COUNT
                      THEN 0 ELSE lost_run + 1)
                ELSE (IF no_face_count' = 0 THEN 0 ELSE -1)

\* the next value of the observation lost_calls on a call of on_face_lost
LostCallCounted ==
    lost_calls' = IF rh_ret' = "true" THEN 0 ELSE lost_calls + 1

\* on_face_lost, lines 49-58
OnFaceLostLate ==
    /\ rh_call' = "on_face_lost"
    /\ IF no_face_count + 1 > NO_FACE_RESET_COUNT
       THEN /\ recognition_active_label' = "none"
            /\ recognition_counters' = ZeroCounters
            /\ no_face_count' = 0
            /\ rh_ret' = "true"
       ELSE /\ no_face_count' = no_face_count + 1
            /\ recognition_counters' = Decayed(recognition_counters)
            /\ rh_ret' = "false"
            /\ UNCHANGED recognition_active_label
    /\ StreakBroken
    /\ LostRunCounted
    /\ LostCallCounted
    /\ UNCHANGED registrationVars
on_face_lost ==
    /\ rh_call' = "on_face_lost"
    /\ IF no_face_count + 1 >= NO_FACE_RESET_COUNT
       THEN /\ recognition_active_label' = "none"
            /\ recognition_counters' = ZeroCounters
            /\ no_face_count' = 0
            /\ rh_ret' = "true"
       ELSE /\ no_face_count' = no_face_count + 1
            /\ recognition_counters' = Decayed(recognition_counters)
            /\ rh_ret' = "false"
            /\ UNCHANGED recognition_active_label
    /\ StreakBroken
    /\ LostRunCounted
    /\ LostCallCounted
    /\ UNCHANGED registrationVars

\* on_face_detected, lines 60-61
OnFaceDetectedKeepsCount ==
    /\ rh_call' = "on_face_detected"
    /\ rh_ret' = "none"
    /\ lost_calls' = 0
    /\ UNCHANGED <<recognition_counters, recognition_active_label,
                   no_face_count, streak_label, streak_len, streak_start,
                   registrationVars>>
    /\ LostRunBroken
on_face_detected ==
    /\ rh_call' = "on_face_detected"
    /\ no_face_count' = 0
    /\ rh_ret' = "none"
    /\ lost_calls' = 0
    /\ UNCHANGED <<recognition_counters, recognition_active_label,
                   streak_label, streak_len, streak_start,
                   registrationVars>>
    /\ LostRunBroken

\* set_active_label, lines 63-64
set_active_label(label) ==
    /\ rh_call' = "set_active_label"
    /\ recognition_active_label' = label
    /\ rh_ret' = "none"
    /\ UNCHANGED <<recognition_counters, no_face_count,
                   streak_label, streak_len, streak_start>>
    /\ LostRunBroken
    /\ UNCHANGED <<registrationVars, lost_calls>>

SAMPLES_PER_PERSON == 5

\* the counter calls leave these alone
CountersKept ==
    UNCHANGED <<recognition_counters, recognition_active_label,
                no_face_count, streak_label, streak_len, streak_start,
                lost_run, lost_calls>>

\* start_registration, lines 75-87 (the name given or generated)
start_registration ==
    /\ rh_call' = "start_registration"
    /\ register_name' = "person"
    /\ is_registering' = TRUE
    /\ register_count' = 0
    /\ rh_ret' = "true"
    /\ CountersKept

\* the counter that ends the registration, line 101
SamplesSufficeLate(count) == count > SAMPLES_PER_PERSON
SamplesSuffice(count) == count >= SAMPLES_PER_PERSON

\* handle_registration, lines 89-115, up to the call of on_complete;
\* success is what register_person returned for this frame
handle_registration(success) ==
    /\ rh_call' = "handle_registration"
    /\ IF success
       THEN IF SamplesSuffice(register_count + 1)
            THEN /\ is_registering' = FALSE
                 /\ register_name' = ""
                 /\ register_count' = 0
                 /\ rh_ret' = "true"
            ELSE /\ register_count' = register_count + 1
                 /\ rh_ret' = "false"
                 /\ UNCHANGED <<is_registering, register_name>>
       ELSE /\ rh_ret' = "false"
            /\ UNCHANGED registrationVars
    /\ CountersKept

\* cancel_registration, lines 117-120
cancel_registration ==
    /\ rh_call' = "cancel_registration"
    /\ is_registering' = FALSE
    /\ register_name' = ""
    /\ register_count' = 0
    /\ rh_ret' = "none"
    /\ CountersKept

(***************************************************************************)
(*                         SearchController                                *)
(***************************************************************************)
NoResult == [action |-> "none", duration |-> 0]

\* a boolean return value
Answer(b) == [action |-> IF b THEN "true" ELSE "false", duration |-> 0]

InitSearch ==
    /\ search_step = 0
    /\ search_cycle = 0
    /\ last_rotation_time = 0
    /\ face_found_in_search = FALSE
    /\ sc_ret = NoResult
    /\ advances = 0

\* reset, lines 20-24
reset ==
    /\ search_step' = 0
    /\ search_cycle' = 0
    /\ last_rotation_time' = 0
    /\ face_found_in_search' = FALSE
    /\ sc_ret' = NoResult
    /\ advances' = 0
    /\ UNCHANGED now

\* is_in_rotation_pause, lines 26-27
is_in_rotation_pause ==
    /\ sc_ret' = Answer(now - last_rotation_time < SEARCH_ROTATE_PAUSE)
    /\ UNCHANGED <<search_step, search_cycle, last_rotation_time,
                   face_found_in_search, advances, now>>

\* update_rotation_time, lines 29-30
update_rotation_time ==
    /\ last_rotation_time' = now
    /\ sc_ret' = NoResult
    /\ UNCHANGED <<search_step, search_cycle, face_found_in_search,
                   advances, now>>

\* the dict get_next_search_action returns, lines 32-70, without its
\* 'message' text
NextSearchAction(step) ==
    IF step = 0
    THEN [action |-> "rotate_left", duration |-> SEARCH_45DEG_DURATION]
    ELSE IF step = 1
    THEN [action |-> "rotate_right", duration |-> SEARCH_45DEG_DURATION * 2]
    ELSE IF step = 2
    THEN [action |-> "rotate_left", duration |-> SEARCH_45DEG_DURATION * 2]
    ELSE IF step = 3
    THEN [action |-> "rotate_right", duration |-> SEARCH_45DEG_DURATION]
    ELSE [action |-> "complete", duration |-> 0]

\* get_next_search_action, lines 32-70
get_next_search_action ==
    /\ sc_ret' = NextSearchAction(search_step)
    /\ UNCHANGED <<search_step, search_cycle, last_rotation_time,
                   face_found_in_search, advances, now>>

\* the (step, cycle) advance_step leaves, lines 72-84
AdvancedOneCycleMore(step, cycle) ==
    IF step = 0 THEN <<1, cycle>>
    ELSE IF step = 1 THEN <<2, cycle>>
    ELSE IF step = 2
    THEN (IF cycle + 1 > SEARCH_CYCLES THEN <<3, cycle + 1>>
          ELSE <<1, cycle + 1>>)
    ELSE IF step = 3 THEN <<4, cycle>>
    ELSE <<step, cycle>>
Advanced(step, cycle) ==
    IF step = 0 THEN <<1, cycle>>
    ELSE IF step = 1 THEN <<2, cycle>>
    ELSE IF step = 2
    THEN (IF cycle + 1 >= SEARCH_CYCLES THEN <<3, cycle + 1>>
          ELSE <<1, cycle + 1>>)
    ELSE IF step = 3 THEN <<4, cycle>>
    ELSE <<step, cycle>>

\* advance_step, lines 72-84
advance_step ==
    /\ search_step' = Advanced(search_step, search_cycle)[1]
    /\ search_cycle' = Advanced(search_step, search_cycle)[2]
    /\ sc_ret' = NoResult
    /\ advances' = Min(advances + 1, MaxAdvances)
    /\ UNCHANGED <<last_rotation_time, face_found_in_search, now>>

\* is_search_complete, lines 86-87
SearchComplete == search_step > 3
is_search_complete ==
    /\ sc_ret' = Answer(SearchComplete)
    /\ UNCHANGED <<search_step, search_cycle, last_rotation_time,
                   face_found_in_search, advances, now>>

\* on_face_found, lines 89-90
on_face_found ==
    /\ face_found_in_search' = TRUE
    /\ sc_ret' = NoResult
    /\ UNCHANGED <<search_step, search_cycle, last_rotation_time,
                   advances, now>>

\* time.time() moves on during a search
SearchTick(d) ==
    /\ now + d <= MaxSearchClock
    /\ now' = now + d
    /\ UNCHANGED searchVars

(***************************************************************************)
(* BehaviorController: face tracking (behavior_controller.py:180-306)      *)
(*                                                                         *)
(* A frame is given by the offset of the face centre from the frame        *)
(* centre, in percent of the frame width (offset_ratio * 100).  Each       *)
(* rotation pulse of _track_until_centered is counted in track_rotations;  *)
(* the start_action / stop_action pair around it is the recorder's         *)
(* business and leaves the tracking state alone.                           *)
(***************************************************************************)
FACE_CENTER_TOLERANCE == 16
FACE_CENTER_CONFIRM_COUNT == 3
\* max_rotations of _track_until_centered
MAX_ROTATIONS == 20

\* the offsets the camera shows: both edges of the tolerance band
Offsets == {-17, -16, 16, 17}
\* what camera.read() and the detector give after a rotation pulse
NoFrame == [seen |-> "no frame", offset |-> 0]
NoFace == [seen |-> "no face", offset |-> 0]
Face(offset) == [seen |-> "face", offset |-> offset]
AfterPulse == {Face(offset) : offset \in Offsets} \cup {NoFrame, NoFace}

Abs(x) == IF x < 0 THEN -x ELSE x
\* abs(offset_ratio) <= FACE_CENTER_TOLERANCE
IsCentered(offset) == Abs(offset) <= FACE_CENTER_TOLERANCE
\* 'right' if offset_ratio > 0 else 'left'
OffsetDirection(offset) == IF offset > 0 THEN "right" ELSE "left"

InitTrack ==
    /\ face_centered = FALSE
    /\ offset_confirm_count = 0
    /\ last_offset_direction = "none"
    /\ track_pc = "idle"
    /\ track_i = 0
    /\ current_direction = "none"
    /\ track_offset = 0
    /\ track_debounced = FALSE
    /\ track_rotations = 0
    /\ same_run = 0
    /\ run_dir = "none"

\* the length of the run of same-direction off-centre frames, counted from
\* the frames alone
ObserveFrame(offset) ==
    /\ track_offset' = offset
    /\ track_debounced' = face_centered
    /\ track_rotations' = 0
    /\ IF IsCentered(offset) \/ ~face_centered
          THEN same_run' = 0 /\ run_dir' = "none"
          ELSE /\ run_dir' = OffsetDirection(offset)
               /\ same_run' = IF run_dir = OffsetDirection(offset)
                                 THEN same_run + 1 ELSE 1

\* track_face_position without a motor: lines 181-184
track_face_position_no_motor(offset) ==
    /\ track_pc = "idle"
    /\ ~motor_on
    /\ track_offset' = offset
    /\ track_debounced' = face_centered
    /\ track_rotations' = 0
    /\ UNCHANGED <<motor_on, face_centered, offset_confirm_count,
                   last_offset_direction, track_pc, track_i,
                   current_direction, same_run, run_dir>>

\* the count after an off-centre frame seen while the face is centred
Counted(count, last, dir) == IF dir = last THEN count + 1 ELSE 1

\* the debounce lets the correction start: lines 222-228
ConfirmedEarly(count) == count >= FACE_CENTER_CONFIRM_COUNT - 1
Confirmed(count) == ~(count < FACE_CENTER_CONFIRM_COUNT)

\* track_face_position(face_rect), up to the call of _track_until_centered
track_face_position(offset) ==
    /\ track_pc = "idle"
    /\ motor_on
    /\ ObserveFrame(offset)
    /\ UNCHANGED motor_on
    /\ LET dir == OffsetDirection(offset)
           count == Counted(offset_confirm_count, last_offset_direction, dir)
       IN  IF IsCentered(offset)
           THEN /\ face_centered' = TRUE
                /\ offset_confirm_count' = 0
                /\ last_offset_direction' = "none"
                /\ UNCHANGED <<track_pc, track_i, current_direction>>
           ELSE IF face_centered /\ ~Confirmed(count)
           THEN /\ offset_confirm_count' = count
                /\ last_offset_direction' = dir
                /\ UNCHANGED <<face_centered, track_pc, track_i,
                               current_direction>>
           ELSE /\ IF face_centered
                      THEN /\ face_centered' = FALSE
                           /\ offset_confirm_count' = 0
                           /\ last_offset_direction' = dir
                      ELSE UNCHANGED <<face_centered, offset_confirm_count,
                                       last_offset_direction>>
                /\ track_pc' = "rotating"
                /\ track_i' = 0
                /\ current_direction' = dir

\* _track_until_centered returns
TrackReturn ==
    /\ track_pc' = "idle"
    /\ track_i' = 0
    /\ current_direction' = "none"

\* one pass of the loop of _track_until_centered: a rotation pulse towards
\* current_direction, then a look at the camera (lines 238-303)
track_until_centered_step(seen) ==
    /\ track_pc = "rotating"
    /\ track_i < MAX_ROTATIONS
    /\ track_rotations' = track_rotations + 1
    /\ UNCHANGED <<motor_on, track_offset, track_debounced>>
    /\ IF seen.seen # "face"
       THEN /\ TrackReturn
            /\ UNCHANGED <<face_centered, offset_confirm_count,
                           last_offset_direction, same_run, run_dir>>
       ELSE IF IsCentered(seen.offset)
       THEN /\ face_centered' = TRUE
            /\ offset_confirm_count' = 0
            /\ last_offset_direction' = "none"
            /\ same_run' = 0
            /\ run_dir' = "none"
            /\ TrackReturn
       ELSE /\ current_direction' = OffsetDirection(seen.offset)
            /\ track_i' = track_i + 1
            /\ UNCHANGED <<track_pc, face_centered, offset_confirm_count,
                           last_offset_direction, same_run, run_dir>>

\* the loop has run max_rotations times: lines 305-306
track_until_centered_exhausted ==
    /\ track_pc = "rotating"
    /\ track_i = MAX_ROTATIONS
    /\ TrackReturn
    /\ UNCHANGED <<motor_on, face_centered, offset_confirm_count,
                   last_offset_direction, track_offset, track_debounced,
                   track_rotations, same_run, run_dir>>

(***************************************************************************)
(* InteractionHandler (interaction_handler.py)                             *)
(*                                                                         *)
(* awake_time, last_activity_time and excited_until are written by the     *)
(* handler and read only by check_awake_timeout, which nothing calls, and  *)
(* by the choice of the face shown on the display; they are left out.      *)
(***************************************************************************)
VOICE_WAKE_DURATION == 500
FAMILIAR_IDLE_TIMEOUT == 2000
STRANGER_TRACK_TIMEOUT == 5500
ULTRASONIC_RECOVERY_DELAY == 200

InitInteractionRest ==
    /\ voice_wake_active = FALSE /\ voice_wake_time = 0
    /\ familiar_interaction_active = FALSE /\ familiar_interaction_time = 0
    /\ stranger_observation_active = FALSE /\ stranger_observation_time = 0
    /\ ultrasonic_scared_active = FALSE /\ ultrasonic_scared_time = 0
    /\ is_playing_audio = FALSE
    /\ blocking_action_active = FALSE
    /\ ih_ret = "none"
InitInteraction == is_awake = FALSE /\ InitInteractionRest

\* what a call leaves behind for the observer
Returns(value) == ih_ret' = value

\* time.time() - started >= timeout
ElapsedStrictly(started, timeout) == now - started > timeout
Elapsed(started, timeout) == now - started >= timeout

\* ---- voice-wake emotion (lines 67-79)
VoiceWakeStarted ==
    /\ voice_wake_time' = now
    /\ voice_wake_active' = TRUE
start_voice_wake_emotion ==
    /\ VoiceWakeStarted
    /\ Returns("none")
    /\ UNCHANGED <<familiar_interaction_active, familiar_interaction_time,
                   stranger_observation_active, stranger_observation_time,
                   ultrasonic_scared_active, ultrasonic_scared_time,
                   is_awake, is_playing_audio, blocking_action_active>>

VoiceWakeFires ==
    voice_wake_active /\ Elapsed(voice_wake_time, VOICE_WAKE_DURATION)
check_voice_wake_emotion_timeout ==
    /\ voice_wake_active' = (voice_wake_active /\ ~VoiceWakeFires)
    /\ Returns(IF VoiceWakeFires THEN "true" ELSE "false")
    /\ UNCHANGED <<voice_wake_time,
                   familiar_interaction_active, familiar_interaction_time,
                   stranger_observation_active, stranger_observation_time,
                   ultrasonic_scared_active, ultrasonic_scared_time,
                   is_awake, is_playing_audio, blocking_action_active>>

\* ---- familiar interaction (lines 91-112)
FamiliarStarted ==
    /\ familiar_interaction_active' = TRUE
    /\ familiar_interaction_time' = now
start_familiar_interaction ==
    /\ FamiliarStarted
    /\ Returns("none")
    /\ UNCHANGED <<voice_wake_active, voice_wake_time,
                   stranger_observation_active, stranger_observation_time,
                   ultrasonic_scared_active, ultrasonic_scared_time,
                   is_awake, is_playing_audio, blocking_action_active>>

FamiliarRefreshed ==
    /\ familiar_interaction_time' =
          IF familiar_interaction_active THEN now
                                         ELSE familiar_interaction_time
    /\ UNCHANGED familiar_interaction_active
refresh_familiar_interaction ==
    /\ FamiliarRefreshed
    /\ Returns("none")
    /\ UNCHANGED <<voice_wake_active, voice_wake_time,
                   stranger_observation_active, stranger_observation_time,
                   ultrasonic_scared_active, ultrasonic_scared_time,
                   is_awake, is_playing_audio, blocking_action_active>>

FamiliarFires ==
    /\ familiar_interaction_active
    /\ Elapsed(familiar_interaction_time, FAMILIAR_IDLE_TIMEOUT)
FamiliarChecked ==
    /\ familiar_interaction_active' =
          (familiar_interaction_active /\ ~FamiliarFires)
    /\ UNCHANGED familiar_interaction_time
check_familiar_timeout ==
    /\ FamiliarChecked
    /\ Returns(IF FamiliarFires THEN "true" ELSE "false")
    /\ UNCHANGED <<voice_wake_active, voice_wake_time,
                   stranger_observation_active, stranger_observation_time,
                   ultrasonic_scared_active, ultrasonic_scared_time,
                   is_awake, is_playing_audio, blocking_action_active>>

end_familiar_interaction ==
    /\ familiar_interaction_active' = FALSE
    /\ Returns("none")
    /\ UNCHANGED <<familiar_interaction_time,
                   voice_wake_active, voice_wake_time,
                   stranger_observation_active, stranger_observation_time,
                   ultrasonic_scared_active, ultrasonic_scared_time,
                   is_awake, is_playing_audio, blocking_action_active>>

\* ---- stranger observation (lines 114-134)
StrangerStarted ==
    /\ stranger_observation_active' = TRUE
    /\ stranger_observation_time' = now
start_stranger_observation ==
    /\ StrangerStarted
    /\ Returns("none")
    /\ UNCHANGED <<voice_wake_active, voice_wake_time,
                   familiar_interaction_active, familiar_interaction_time,
                   ultrasonic_scared_active, ultrasonic_scared_time,
                   is_awake, is_playing_audio, blocking_action_active>>

StrangerRefreshed ==
    /\ stranger_observation_time' =
          IF stranger_observation_active THEN now
                                         ELSE stranger_observation_time
    /\ UNCHANGED stranger_observation_active
refresh_stranger_observation ==
    /\ StrangerRefreshed
    /\ Returns("none")
    /\ UNCHANGED <<voice_wake_active, voice_wake_time,
                   familiar_interaction_active, familiar_interaction_time,
                   ultrasonic_scared_active, ultrasonic_scared_time,
                   is_awake, is_playing_audio, blocking_action_active>>

StrangerFires ==
    /\ stranger_observation_active
    /\ Elapsed(stranger_observation_time, STRANGER_TRACK_TIMEOUT)
StrangerChecked ==
    /\ stranger_observation_active' =
          (stranger_observation_active /\ ~StrangerFires)
    /\ UNCHANGED stranger_observation_time
check_stranger_timeout ==
    /\ StrangerChecked
    /\ Returns(IF StrangerFires THEN "true" ELSE "false")
    /\ UNCHANGED <<voice_wake_active, voice_wake_time,
                   familiar_interaction_active, familiar_interaction_time,
                   ultrasonic_scared_active, ultrasonic_scared_time,
                   is_awake, is_playing_audio, blocking_action_active>>

end_stranger_observation ==
    /\ stranger_observation_active' = FALSE
    /\ Returns("none")
    /\ UNCHANGED <<stranger_observation_time,
                   voice_wake_active, voice_wake_time,
                   familiar_interaction_active, familiar_interaction_time,
                   ultrasonic_scared_active, ultrasonic_scared_time,
                   is_awake, is_playing_audio, blocking_action_active>>

\* ---- ultrasonic recovery (lines 136-147)
trigger_ultrasonic_scared ==
    /\ ultrasonic_scared_active' = TRUE
    /\ ultrasonic_scared_time' = now
    /\ Returns("none")
    /\ UNCHANGED <<voice_wake_active, voice_wake_time,
                   familiar_interaction_active, familiar_interaction_time,
                   stranger_observation_active, stranger_observation_time,
                   is_awake, is_playing_audio, blocking_action_active>>

UltrasonicFires(recovery_delay) ==
    /\ ultrasonic_scared_active
    /\ Elapsed(ultrasonic_scared_time, recovery_delay)
check_ultrasonic_recovery(recovery_delay) ==
    /\ ultrasonic_scared_active' =
          (ultrasonic_scared_active /\ ~UltrasonicFires(recovery_delay))
    /\ Returns(IF UltrasonicFires(recovery_delay) THEN "true" ELSE "false")
    /\ UNCHANGED <<ultrasonic_scared_time,
                   voice_wake_active, voice_wake_time,
                   familiar_interaction_active, familiar_interaction_time,
                   stranger_observation_active, stranger_observation_time,
                   is_awake, is_playing_audio, blocking_action_active>>

\* time.time() moves on between two calls
TimerTick(d) ==
    /\ now + d <= MaxTimerClock
    /\ now' = now + d
    /\ Returns("none")
    /\ UNCHANGED <<timerVars, is_awake, is_playing_audio,
                   blocking_action_active>>

(***************************************************************************)
(* WallE (main.py): the loop of run() on the main thread, the callbacks    *)
(* on_voice_wake / on_voice_command on the voice-listener thread           *)
(* (voice_listener.py:219-233), and the background thread that             *)
(* MotorController.move_for_duration starts.                               *)
(*                                                                         *)
(* What the camera, the recogniser, the search script and the sensors      *)
(* report is input, chosen freely in every pass.  The keyboard debug       *)
(* commands, the registration of a new face and the faces on the display   *)
(* are left out.                                                           *)
(***************************************************************************)
States == {"IDLE", "SEARCHING", "TRACKING", "FAMILIAR_STAY",
           "STRANGER_OBSERVE", "SHOCKED", "RETURNING"}
\* the commands the voice listener matches
Commands == {"sing", "spin", "back"}
\* time.time() - self._fear_start_time > 0.5 (main.py:614)
FEAR_PAUSE == 50

\* no routine under way
NoMove == [type |-> "none", direction |-> "none", label |-> "none"]
Move(type, direction, label) ==
    [type |-> type, direction |-> direction, label |-> label]

InitMain ==
    /\ state = "IDLE"
    /\ fear_action_done = FALSE
    /\ fear_start_time = 0
    /\ voice_paused = FALSE
    /\ main_pc = "top"
    /\ voice_pc = "listen"
    /\ mover_pc = "none"
    /\ main_move = NoMove
    /\ main_start = 0
    /\ motor_is_moving = FALSE
    /\ motor_cmd = "none"
    /\ motor_by = "none"
    /\ motor_seq = 0
    /\ tick_latch = "unread"
    /\ tick_update = "none"
    /\ tick_event = "none"

\* ---- MotorController
\* a command reaches the motor: forward, backward, turn_left, turn_right.
\* With the motor disabled the methods only print.
MotorCommand(by, cmd) ==
    IF motor_on
    THEN /\ motor_cmd' = cmd
         /\ motor_by' = by
         /\ motor_seq' = 1 - motor_seq
    ELSE UNCHANGED <<motor_cmd, motor_by, motor_seq>>
MotorDrive(by, cmd) == MotorCommand(by, cmd) /\ UNCHANGED motor_is_moving
\* MotorController.stop (lines 158-164)
MotorStop(by) ==
    /\ MotorCommand(by, "stop")
    /\ motor_is_moving' = (~motor_on /\ motor_is_moving)

\* ---- ActionRecorder, called by one thread from start to end
\* start_action(type, direction)
RecorderStart(type, direction) ==
    IF is_returning
    THEN UNCHANGED <<action_history, current_action, action_start_time>>
    ELSE LET f == finish_current_action(action_history, current_action,
                                        action_start_time)
         IN  /\ action_history' = f[1]
             /\ current_action' = [type |-> type, direction |-> direction]
             /\ action_start_time' = now
\* WallE._start_returning (main.py:635-649), from the has_actions test on
StartReturning ==
    IF action_history = <<>>
    THEN /\ state' = "IDLE"
         /\ UNCHANGED <<action_history, current_action, action_start_time,
                        is_returning, return_action_index>>
    ELSE LET f == finish_current_action(action_history, current_action,
                                        action_start_time)
         IN  /\ action_history' = f[1]
             /\ current_action' = f[2]
             /\ action_start_time' = f[3]
             /\ is_returning' = TRUE
             /\ return_action_index' = Len(f[1]) - 1
             /\ state' = "RETURNING"
\* the recorder's fields, and those only the threads of SpecRecorder use
recorderCore == <<action_history, current_action, action_start_time,
                  is_returning, return_action_index>>
recorderRest == <<lock, pc, arg, ret, run, snapshot, replayed, outcome>>
flagVars == <<is_awake, is_playing_audio, blocking_action_active, ih_ret>>
threadVars == <<main_pc, voice_pc, mover_pc>>
fearVars == <<fear_action_done, fear_start_time>>

\* ---- run(), lines 652-678: the latch, then the dispatch on self.state
UpdateFunction(s) ==
    CASE s = "IDLE" -> "_update_idle"
      [] s = "SEARCHING" -> "_update_searching"
      [] s = "TRACKING" -> "_update_tracking"
      [] s = "FAMILIAR_STAY" -> "_update_familiar_stay"
      [] s = "STRANGER_OBSERVE" -> "_update_stranger_observe"
      [] s = "SHOCKED" -> "_update_shocked"
      [] s = "RETURNING" -> "_update_returning"

\* the pass goes on to the state update (line 658)
DispatchesAlways(latch) == TRUE
Dispatches(latch) == ~latch

run_top ==
    /\ main_pc = "top"
    /\ tick_latch' = IF blocking_action_active THEN "true" ELSE "false"
    /\ tick_event' = "none"
    /\ IF Dispatches(blocking_action_active)
       THEN /\ tick_update' = UpdateFunction(state)
            /\ main_pc' = "update"
       ELSE /\ tick_update' = "none"
            /\ main_pc' = "blocked"
    /\ UNCHANGED <<state, fearVars, voice_paused, voice_pc, mover_pc,
                   main_move, main_start, motorVars, timerVars, flagVars,
                   recorderCore>>

\* lines 659-662: sleep, update the display, continue
run_blocked ==
    /\ main_pc = "blocked"
    /\ main_pc' = "top"
    /\ UNCHANGED <<state, fearVars, voice_paused, voice_pc, mover_pc,
                   main_move, main_start, motorVars, tickVars, timerVars,
                   flagVars, recorderCore>>

\* the main thread is inside the update function `update'
InUpdate(update) == main_pc = "update" /\ tick_update = update
\* ... and inside a routine of it that drives the motor
InRoutine(update) == main_pc = "driving" /\ tick_update = update

\* a routine starts: start_action, then the first motor command
RoutineStarts(type, direction, label, cmd) ==
    /\ Len(action_history) < MaxHist
    /\ RecorderStart(type, direction)
    /\ MotorDrive("main", cmd)
    /\ main_move' = Move(type, direction, label)
    /\ main_start' = now
    /\ main_pc' = "driving"
    /\ UNCHANGED <<is_returning, return_action_index>>
\* a routine ends: the motor stops, then stop_action
RoutineEnds ==
    /\ MotorStop("main")
    /\ StopActionBody
    /\ main_move' = NoMove
    /\ main_start' = 0
    /\ main_pc' = "post"
    /\ UNCHANGED <<is_returning, return_action_index>>
\* the update function returns without touching motor or recorder
UpdateReturns ==
    /\ main_pc' = "post"
    /\ UNCHANGED <<main_move, main_start, motorVars>>

\* the motor command that drives a motion
CommandOf(type, direction) ==
    IF type = "rotate" THEN "turn_" \o direction ELSE direction

\* ---- _update_idle (lines 352-357)
update_idle ==
    /\ InUpdate("_update_idle")
    /\ UpdateReturns
    /\ UNCHANGED <<state, fearVars, voice_paused, voice_pc, mover_pc,
                   tickVars, timerVars, flagVars, recorderCore>>

\* ---- _update_searching (lines 359-397)
\* a rotation of the search or of center_face starts the motor
\* (search_controller.py:110-118, 247-252)
RotationStarts(direction, label) ==
    /\ Len(action_history) < MaxHist
    /\ MotorDrive("main", CommandOf("rotate", direction))
    /\ main_move' = Move("rotate", direction, label)
    /\ main_start' = now
    /\ main_pc' = "driving"
    /\ UNCHANGED recorderCore
\* ... stops it, and hands the time it took to ActionRecorder.record
\* (search_controller.py:132-141, 295-297)
RotationEnds ==
    /\ MotorStop("main")
    /\ LET actual_rotate_time == now - main_start
       IN  action_history' =
             IF /\ actual_rotate_time > 10
                /\ ~is_returning
                /\ ~(actual_rotate_time < MIN_DURATION)
             THEN Append(action_history,
                         [type |-> "rotate",
                          direction |-> main_move.direction,
                          duration |-> actual_rotate_time])
             ELSE action_history
    /\ main_move' = NoMove
    /\ main_start' = 0
    /\ main_pc' = "post"
    /\ UNCHANGED <<current_action, action_start_time, is_returning,
                   return_action_index>>

\* in the rotation pause: look for a face, nothing else
update_searching_pause(found) ==
    /\ InUpdate("_update_searching")
    /\ state' = IF found THEN "TRACKING" ELSE state
    /\ UpdateReturns
    /\ UNCHANGED <<fearVars, voice_paused, voice_pc, mover_pc, tickVars,
                   timerVars, flagVars, recorderCore>>
\* the script is complete: return to the start position
update_searching_complete ==
    /\ InUpdate("_update_searching")
    /\ StartReturning
    /\ UpdateReturns
    /\ UNCHANGED <<fearVars, voice_paused, voice_pc, mover_pc, tickVars,
                   timerVars, flagVars>>
\* SearchController.rotate_and_detect starts the motor (lines 110-118)
update_searching_rotate(direction) ==
    /\ InUpdate("_update_searching")
    /\ RotationStarts(direction, "none")
    /\ UNCHANGED <<state, fearVars, voice_paused, voice_pc, mover_pc,
                   tickVars, timerVars, flagVars>>
\* ... and stops it, records the rotation (lines 132-145), and the update
\* function goes on (lines 390-397)
update_searching_rotated(found) ==
    /\ InRoutine("_update_searching")
    /\ RotationEnds
    /\ state' = IF found THEN "TRACKING" ELSE state
    /\ UNCHANGED <<fearVars, voice_paused, voice_pc, mover_pc, tickVars,
                   timerVars, flagVars>>

\* ---- _update_tracking (lines 399-477)
\* no frame, a face lost for a short while, or a label not yet confirmed
update_tracking_wait ==
    /\ InUpdate("_update_tracking")
    /\ UpdateReturns
    /\ UNCHANGED <<state, fearVars, voice_paused, voice_pc, mover_pc,
                   tickVars, timerVars, flagVars, recorderCore>>
\* on_face_lost() returned True: back to the search
update_tracking_lost ==
    /\ InUpdate("_update_tracking")
    /\ state' = "SEARCHING"
    /\ UpdateReturns
    /\ UNCHANGED <<fearVars, voice_paused, voice_pc, mover_pc, tickVars,
                   timerVars, flagVars, recorderCore>>
\* a stranger is confirmed with the face centred already: center_face
\* returns at once (lines 466-477)
update_tracking_shocked ==
    /\ InUpdate("_update_tracking")
    /\ StrangerStarted
    /\ state' = "SHOCKED"
    /\ UpdateReturns
    /\ UNCHANGED <<fearVars, voice_paused, voice_pc, mover_pc, tickVars,
                   VoiceWakeTimer, FamiliarTimer, UltrasonicTimer, flagVars,
                   recorderCore>>
\* the label is confirmed and the motor is driven: by center_face for a
\* stranger off the centre, by approach_familiar_person for a familiar face
update_tracking_confirmed(label, direction) ==
    /\ InUpdate("_update_tracking")
    /\ IF label = "familiar"
       THEN RoutineStarts("move", "forward", label, "forward")
       ELSE RotationStarts(direction, label)
    /\ UNCHANGED <<state, fearVars, voice_paused, voice_pc, mover_pc,
                   tickVars, timerVars, flagVars>>
\* ... and the timer of the new state starts (lines 460-477)
update_tracking_entered ==
    /\ InRoutine("_update_tracking")
    /\ IF main_move.label = "familiar" THEN RoutineEnds ELSE RotationEnds
    /\ IF main_move.label = "familiar"
       THEN /\ FamiliarStarted
            /\ state' = "FAMILIAR_STAY"
            /\ UNCHANGED StrangerTimer
       ELSE /\ StrangerStarted
            /\ state' = "SHOCKED"
            /\ UNCHANGED FamiliarTimer
    /\ UNCHANGED <<fearVars, voice_paused, voice_pc, mover_pc, tickVars,
                   VoiceWakeTimer, UltrasonicTimer, flagVars>>

\* ---- _update_familiar_stay (lines 513-543)
\* 1) the interaction timed out
update_familiar_stay_timeout ==
    /\ InUpdate("_update_familiar_stay")
    /\ FamiliarFires
    /\ FamiliarChecked
    /\ StartReturning
    /\ UpdateReturns
    /\ UNCHANGED <<fearVars, voice_paused, voice_pc, mover_pc, tickVars,
                   VoiceWakeTimer, StrangerTimer, UltrasonicTimer, flagVars>>
\* 3) follow_familiar_person gives no motor command: no face (False), or a
\* face at a good distance or a cooldown (True)
update_familiar_stay_still(face_detected) ==
    /\ InUpdate("_update_familiar_stay")
    /\ ~FamiliarFires
    /\ IF face_detected /\ familiar_interaction_active
       THEN FamiliarRefreshed
       ELSE UNCHANGED FamiliarTimer
    /\ UpdateReturns
    /\ UNCHANGED <<state, fearVars, voice_paused, voice_pc, mover_pc,
                   tickVars, VoiceWakeTimer, StrangerTimer, UltrasonicTimer,
                   flagVars, recorderCore>>
\* 3) follow_familiar_person corrects: a short rotation or movement
update_familiar_stay_follow(type, direction) ==
    /\ InUpdate("_update_familiar_stay")
    /\ ~FamiliarFires
    /\ RoutineStarts(type, direction, "familiar", CommandOf(type, direction))
    /\ UNCHANGED <<state, fearVars, voice_paused, voice_pc, mover_pc,
                   tickVars, timerVars, flagVars>>
\* ... and returns True: the timer is refreshed (lines 541-543)
update_familiar_stay_followed ==
    /\ InRoutine("_update_familiar_stay")
    /\ RoutineEnds
    /\ FamiliarRefreshed
    /\ UNCHANGED <<state, fearVars, voice_paused, voice_pc, mover_pc,
                   tickVars, VoiceWakeTimer, StrangerTimer, UltrasonicTimer,
                   flagVars>>

\* ---- _update_shocked (lines 545-580)
update_shocked_timeout ==
    /\ InUpdate("_update_shocked")
    /\ StrangerFires
    /\ StrangerChecked
    /\ StartReturning
    /\ UpdateReturns
    /\ UNCHANGED <<fearVars, voice_paused, voice_pc, mover_pc, tickVars,
                   VoiceWakeTimer, FamiliarTimer, UltrasonicTimer, flagVars>>
\* no face in the frame; on_face_lost() says whether the stranger has left
update_shocked_lost(left) ==
    /\ InUpdate("_update_shocked")
    /\ ~StrangerFires
    /\ IF left THEN StartReturning
               ELSE UNCHANGED <<state, recorderCore>>
    /\ UpdateReturns
    /\ UNCHANGED <<fearVars, voice_paused, voice_pc, mover_pc, tickVars,
                   timerVars, flagVars>>
\* a face, and track_face_position returns without a rotation; also no
\* frame at all
update_shocked_watch ==
    /\ InUpdate("_update_shocked")
    /\ ~StrangerFires
    /\ UpdateReturns
    /\ UNCHANGED <<state, fearVars, voice_paused, voice_pc, mover_pc,
                   tickVars, timerVars, flagVars, recorderCore>>
\* a face, and track_face_position rotates towards it
update_shocked_track(direction) ==
    /\ InUpdate("_update_shocked")
    /\ ~StrangerFires
    /\ RoutineStarts("rotate", direction, "stranger",
                     CommandOf("rotate", direction))
    /\ UNCHANGED <<state, fearVars, voice_paused, voice_pc, mover_pc,
                   tickVars, timerVars, flagVars>>
\* ... and returns (line 580)
update_shocked_tracked_refreshing ==
    /\ InRoutine("_update_shocked")
    /\ RoutineEnds
    /\ StrangerRefreshed
    /\ UNCHANGED <<state, fearVars, voice_paused, voice_pc, mover_pc,
                   tickVars, VoiceWakeTimer, FamiliarTimer, UltrasonicTimer,
                   flagVars>>
update_shocked_tracked ==
    /\ InRoutine("_update_shocked")
    /\ RoutineEnds
    /\ UNCHANGED <<state, fearVars, voice_paused, voice_pc, mover_pc,
                   tickVars, timerVars, flagVars>>

\* ---- _update_stranger_observe (lines 582-618)
\* move_for_duration is not blocking: start_action and stop_action follow
\* each other at once, which leaves of the pair what stop_action does
update_stranger_observe ==
    /\ InUpdate("_update_stranger_observe")
    /\ IF ~fear_action_done
       THEN /\ StopActionBody
            /\ mover_pc' = IF motor_on /\ ~motor_is_moving
                              THEN "start" ELSE mover_pc
            /\ fear_start_time' = now
            /\ StrangerRefreshed
            /\ fear_action_done' = TRUE
            /\ UNCHANGED state
       ELSE /\ UNCHANGED <<action_history, current_action,
                           action_start_time, mover_pc, fear_start_time,
                           StrangerTimer>>
            /\ IF now - fear_start_time > FEAR_PAUSE
               THEN state' = "SHOCKED" /\ fear_action_done' = FALSE
               ELSE UNCHANGED <<state, fear_action_done>>
    /\ UpdateReturns
    /\ UNCHANGED <<voice_paused, voice_pc, tickVars, VoiceWakeTimer,
                   FamiliarTimer, UltrasonicTimer, flagVars, is_returning,
                   return_action_index>>

\* ---- _update_returning (lines 620-633)
\* execute_return_action finds nothing left: finish_returning
update_returning_done ==
    /\ InUpdate("_update_returning")
    /\ return_action_index < 0
    /\ is_returning' = FALSE
    /\ ClearBody
    /\ state' = "IDLE"
    /\ UpdateReturns
    /\ UNCHANGED <<fearVars, voice_paused, voice_pc, mover_pc, tickVars,
                   timerVars, flagVars, return_action_index>>
\* execute_return_action replays the action under the cursor
update_returning_replay ==
    /\ InUpdate("_update_returning")
    /\ return_action_index >= 0
    /\ return_action_index < Len(action_history)
    /\ LET action == action_history[return_action_index + 1]
           direction == get_reverse_direction(action.direction)
       IN  /\ MotorDrive("main", CommandOf(action.type, direction))
           /\ main_move' = Move(action.type, direction, "none")
    /\ main_start' = now
    /\ main_pc' = "driving"
    /\ UNCHANGED <<state, fearVars, voice_paused, voice_pc, mover_pc,
                   tickVars, timerVars, flagVars, recorderCore>>
update_returning_replayed ==
    /\ InRoutine("_update_returning")
    /\ MotorStop("main")
    /\ return_action_index' = return_action_index - 1
    /\ main_move' = NoMove
    /\ main_start' = 0
    /\ main_pc' = "post"
    /\ UNCHANGED <<state, fearVars, voice_paused, voice_pc, mover_pc,
                   tickVars, timerVars, flagVars, action_history,
                   current_action, action_start_time, is_returning>>

\* ---- run(), lines 680-695: while returning only the obstacle check
run_returning(is_near) ==
    /\ main_pc = "post"
    /\ is_returning
    /\ IF is_near THEN MotorStop("main") ELSE UNCHANGED motorVars
    /\ main_pc' = "top"
    /\ UNCHANGED <<state, fearVars, voice_paused, voice_pc, mover_pc,
                   main_move, main_start, tickVars, timerVars, flagVars,
                   recorderCore>>

\* ---- run(), lines 697-739: the voice-wake emotion, the end of the audio,
\* the ultrasonic sensors in IDLE.  `stops' says that the display was not
\* showing "scared" yet when the object came near.
run_checks(music_playing, is_near, stops) ==
    /\ main_pc = "post"
    /\ ~is_returning
    /\ voice_wake_active' = (voice_wake_active /\ ~VoiceWakeFires)
    /\ IF is_playing_audio /\ ~music_playing
       THEN is_playing_audio' = FALSE /\ voice_paused' = FALSE
       ELSE UNCHANGED <<is_playing_audio, voice_paused>>
    /\ IF state = "IDLE"
       THEN IF is_near
            THEN /\ IF stops THEN MotorStop("main")
                             ELSE UNCHANGED motorVars
                 /\ ultrasonic_scared_active' = TRUE
                 /\ ultrasonic_scared_time' = now
            ELSE /\ ultrasonic_scared_active' =
                      (/\ ultrasonic_scared_active
                       /\ ~UltrasonicFires(ULTRASONIC_RECOVERY_DELAY))
                 /\ UNCHANGED <<ultrasonic_scared_time, motorVars>>
       ELSE UNCHANGED <<UltrasonicTimer, motorVars>>
    /\ main_pc' = "events"
    /\ UNCHANGED <<state, fearVars, voice_pc, mover_pc, main_move,
                   main_start, tickVars, voice_wake_time, FamiliarTimer,
                   StrangerTimer, is_awake, blocking_action_active, ih_ret,
                   recorderCore>>

\* ---- run(), lines 741-816: the touch events
run_no_event ==
    /\ main_pc = "events"
    /\ main_pc' = "top"
    /\ UNCHANGED <<state, fearVars, voice_paused, voice_pc, mover_pc,
                   main_move, main_start, motorVars, tickVars, timerVars,
                   flagVars, recorderCore>>

\* a touch_end event; `long' says that it lasted 0.1 s or more, so that
\* handle_touch_end answers "excited"
run_touch_end(long) ==
    /\ main_pc = "events"
    /\ tick_event' = "touch_end"
    /\ main_pc' = "top"
    /\ IF is_playing_audio
       THEN \* the touch stops the playback, and the pass ends (752-763)
            /\ is_playing_audio' = FALSE
            /\ voice_paused' = FALSE
            /\ UNCHANGED <<state, FamiliarTimer, is_awake, action_history,
                           current_action, action_start_time>>
       ELSE LET touched == IF state = "SHOCKED" THEN "STRANGER_OBSERVE"
                                                ELSE state
                wakes == long /\ state = "IDLE"
            IN  /\ FamiliarRefreshed
                /\ IF wakes
                   THEN /\ ClearBody
                        /\ is_awake' = TRUE
                        /\ state' = "SEARCHING"
                   ELSE /\ state' = touched
                        /\ UNCHANGED <<is_awake, action_history,
                                       current_action, action_start_time>>
                /\ UNCHANGED <<is_playing_audio, voice_paused>>
    /\ UNCHANGED <<fearVars, voice_pc, mover_pc, main_move, main_start,
                   motorVars, tick_latch, tick_update, VoiceWakeTimer,
                   StrangerTimer, UltrasonicTimer, blocking_action_active,
                   ih_ret, is_returning, return_action_index>>

\* ---- on_voice_wake, on the voice-listener thread (main.py:235-257)
on_voice_wake ==
    /\ voice_pc = "listen"
    /\ ~voice_paused
    /\ ~is_returning
    /\ state = "IDLE"
    /\ ClearBody
    /\ is_awake' = TRUE
    /\ state' = "SEARCHING"
    /\ UNCHANGED <<fearVars, voice_paused, threadVars, main_move, main_start,
                   motorVars, tickVars, timerVars, is_playing_audio,
                   blocking_action_active, ih_ret, is_returning,
                   return_action_index>>

\* ---- on_voice_command, on the voice-listener thread (main.py:191-233)
\* the command is accepted: lines 193-202
Accepted == ~is_returning /\ is_awake
\* a handler that refreshed the familiar timer alone
CommandRefreshesFamiliar ==
    /\ familiar_interaction_time' =
          IF familiar_interaction_active THEN now
                                         ELSE familiar_interaction_time
    /\ UNCHANGED StrangerTimer
\* lines 209-214: the timers that run are refreshed
CommandRefreshes ==
    /\ familiar_interaction_time' =
          IF familiar_interaction_active THEN now
                                         ELSE familiar_interaction_time
    /\ StrangerRefreshed

\* a command outside FAMILIAR_STAY: refused after the refresh (217-221)
on_voice_command_refused(command) ==
    /\ voice_pc = "listen"
    /\ ~voice_paused
    /\ Accepted
    /\ state # "FAMILIAR_STAY"
    /\ CommandRefreshes
    /\ UNCHANGED <<familiar_interaction_active, state, fearVars,
                   voice_paused, threadVars, main_move, main_start,
                   motorVars, tickVars, VoiceWakeTimer, UltrasonicTimer,
                   flagVars, recorderCore>>

\* "sing": do_sing (interaction_handler.py:149-164)
on_voice_command_sing(file_exists) ==
    /\ voice_pc = "listen"
    /\ ~voice_paused
    /\ Accepted
    /\ state = "FAMILIAR_STAY"
    /\ CommandRefreshes
    /\ voice_paused' = file_exists
    /\ is_playing_audio' = (file_exists \/ is_playing_audio)
    /\ UNCHANGED <<familiar_interaction_active, state, fearVars, threadVars,
                   main_move, main_start, motorVars, tickVars,
                   VoiceWakeTimer, UltrasonicTimer, is_awake,
                   blocking_action_active, ih_ret, recorderCore>>

\* "back": end_familiar_interaction, then _start_returning
on_voice_command_back ==
    /\ voice_pc = "listen"
    /\ ~voice_paused
    /\ Accepted
    /\ state = "FAMILIAR_STAY"
    /\ CommandRefreshes
    /\ familiar_interaction_active' = FALSE
    /\ StartReturning
    /\ UNCHANGED <<fearVars, voice_paused, threadVars, main_move, main_start,
                   motorVars, tickVars, VoiceWakeTimer, UltrasonicTimer,
                   flagVars>>

\* "back" as the main thread may see it: the familiar interaction is ended
\* (main.py:229) ...
on_voice_command_back_ends ==
    /\ voice_pc = "listen"
    /\ ~voice_paused
    /\ Accepted
    /\ state = "FAMILIAR_STAY"
    /\ CommandRefreshes
    /\ familiar_interaction_active' = FALSE
    /\ voice_pc' = "back"
    /\ UNCHANGED <<state, fearVars, voice_paused, main_pc, mover_pc,
                   main_move, main_start, motorVars, tickVars,
                   VoiceWakeTimer, UltrasonicTimer, flagVars, recorderCore>>
\* ... and then _start_returning changes the state (main.py:230, 635-649)
on_voice_command_back_returns ==
    /\ voice_pc = "back"
    /\ StartReturning
    /\ voice_pc' = "listen"
    /\ UNCHANGED <<fearVars, voice_paused, main_pc, mover_pc, main_move,
                   main_start, motorVars, tickVars, timerVars, flagVars>>

\* a command while returning or asleep: the handler returns (193-202)
on_voice_command_ignored ==
    /\ voice_pc = "listen"
    /\ ~voice_paused
    /\ ~Accepted
    /\ UNCHANGED <<mainVars, interactionVars, recorderCore>>

\* "friends": _start_registration (main.py:231-233, 328-330), which is
\* start_registration (recognition_handler.py:75-87)
on_voice_command_friends ==
    /\ voice_pc = "listen"
    /\ ~voice_paused
    /\ Accepted
    /\ CommandRefreshes
    /\ is_registering' = TRUE
    /\ register_name' = "person"
    /\ register_count' = 0
    /\ UNCHANGED <<familiar_interaction_active, state, fearVars,
                   voice_paused, threadVars, main_move, main_start,
                   motorVars, tickVars, VoiceWakeTimer, UltrasonicTimer,
                   flagVars, recorderCore>>

\* "spin": do_spin sets the latch (interaction_handler.py:166-169)
on_voice_command_spin ==
    /\ voice_pc = "listen"
    /\ ~voice_paused
    /\ Accepted
    /\ state = "FAMILIAR_STAY"
    /\ CommandRefreshes
    /\ blocking_action_active' = TRUE
    /\ voice_pc' = "spin_latched"
    /\ UNCHANGED <<familiar_interaction_active, state, fearVars,
                   voice_paused, main_pc, mover_pc, main_move, main_start,
                   motorVars, tickVars, VoiceWakeTimer, UltrasonicTimer,
                   is_awake, is_playing_audio, ih_ret, recorderCore>>
\* do_spin pauses the listener and turns the motor (lines 171-178)
do_spin_turn ==
    /\ voice_pc = "spin_latched"
    /\ voice_paused' = TRUE
    /\ IF motor_on
       THEN MotorDrive("voice", "turn_right") /\ voice_pc' = "spinning"
       ELSE UNCHANGED motorVars /\ voice_pc' = "spin_end"
    /\ UNCHANGED <<state, fearVars, main_pc, mover_pc, main_move, main_start,
                   tickVars, timerVars, flagVars, recorderCore>>
\* SPIN_DURATION later the motor stops (lines 180-185)
do_spin_stop ==
    /\ voice_pc = "spinning"
    /\ MotorStop("voice")
    /\ voice_pc' = "spin_end"
    /\ UNCHANGED <<state, fearVars, voice_paused, main_pc, mover_pc,
                   main_move, main_start, tickVars, timerVars, flagVars,
                   recorderCore>>
\* do_spin resumes the listener, clears the latch and starts the
\* voice-wake emotion (lines 189-193)
do_spin_end ==
    /\ voice_pc = "spin_end"
    /\ voice_paused' = FALSE
    /\ blocking_action_active' = FALSE
    /\ VoiceWakeStarted
    /\ voice_pc' = "listen"
    /\ UNCHANGED <<state, fearVars, main_pc, mover_pc, main_move, main_start,
                   motorVars, tickVars, FamiliarTimer, StrangerTimer,
                   UltrasonicTimer, is_awake, is_playing_audio, ih_ret,
                   recorderCore>>

\* ---- the thread of MotorController.move_for_duration (lines 201-238)
move_starts ==
    /\ mover_pc = "start"
    /\ motor_is_moving' = TRUE
    /\ MotorCommand("mover", "backward")
    /\ mover_pc' = "moving"
    /\ UNCHANGED <<state, fearVars, voice_paused, main_pc, voice_pc,
                   main_move, main_start, tickVars, timerVars, flagVars,
                   recorderCore>>
move_stops ==
    /\ mover_pc = "moving"
    /\ MotorStop("mover")
    /\ mover_pc' = "none"
    /\ UNCHANGED <<state, fearVars, voice_paused, main_pc, voice_pc,
                   main_move, main_start, tickVars, timerVars, flagVars,
                   recorderCore>>

\* time.time() moves on
MainTick(d) ==
    /\ now + d <= MaxTimerClock
    /\ now' = now + d
    /\ UNCHANGED <<mainVars, interactionVars, recorderCore>>

(***************************************************************************)
(*        BehaviorController.approach_familiar_person (lines 26-144)       *)
(***************************************************************************)
\* max_approach_time = 10.0 (line 49) and check_interval = 0.1 (line 50)
max_approach_time == 1000
check_interval == 10
\* time.sleep(0.15) after the first stop (line 47)
SETTLE_SLEEP == 15
\* time.sleep(0.2) when the path is clear again (line 86)
RESUME_SLEEP == 20
\* time.sleep(0.01) at the end of a cycle (line 133)
YIELD_SLEEP == 1
\* time.sleep(0.1) inside MotorController.brake (motor_controller.py:182)
BRAKE_SLEEP == 10

\* the sensors keep their value for EpochLen; the last epoch never ends
Epochs == 0 .. (NEpochs - 1)
EpochOf(elapsed) == Min(elapsed \div EpochLen, NEpochs - 1)
\* ultrasonic.is_object_near(use_cached=True), `elapsed' into the loop
NearAt(elapsed) == EpochOf(elapsed) \in near_epochs
\* the face is close enough: eye distance or face width (lines 112-117)
CloseAt(elapsed) == EpochOf(elapsed) >= stop_epoch

InitApproach ==
    /\ approach_pc = "idle"
    /\ start_time = 0
    /\ is_blocked = FALSE
    /\ is_moving = FALSE
    /\ obstacle_detected = FALSE
    /\ near_epochs = {}
    /\ stop_epoch = 0

\* MotorController.brake (lines 166-185): brakes for 0.1 s, then stop()
MotorBrake(by) ==
    /\ MotorCommand(by, "brake")
    /\ motor_is_moving' = (~motor_on /\ motor_is_moving)
    /\ now' = IF motor_on THEN now + BRAKE_SLEEP ELSE now

\* the loop goes on (line 56)
LoopRuns == now - start_time < max_approach_time
\* the branch of line 65 never taken
BlocksNever(reading) == FALSE
\* the branch of line 65
Blocks(reading) == reading

scenarioVars == <<near_epochs, stop_epoch>>
apprRest == <<state, fearVars, voice_paused, threadVars, main_move,
              main_start, tickVars, is_returning, return_action_index>>

\* lines 43-54: a full stop, 0.15 s, then the loop starts
approach_familiar_person ==
    /\ approach_pc = "idle"
    /\ MotorStop("main")
    /\ now' = now + SETTLE_SLEEP
    /\ start_time' = now + SETTLE_SLEEP
    /\ is_blocked' = FALSE
    /\ is_moving' = FALSE
    /\ approach_pc' = "loop"
    /\ UNCHANGED <<obstacle_detected, scenarioVars, apprRest,
                   action_history, current_action, action_start_time>>

\* lines 56-68: an obstacle while moving: brake
approach_brake ==
    /\ approach_pc = "loop"
    /\ LoopRuns
    /\ obstacle_detected' = NearAt(now - start_time)
    /\ Blocks(obstacle_detected')
    /\ is_moving
    /\ MotorBrake("main")
    /\ approach_pc' = "braked"
    /\ UNCHANGED <<start_time, is_blocked, is_moving, scenarioVars, apprRest,
                   action_history, current_action, action_start_time>>

\* lines 68-80: stop_action after the brake, or an obstacle while standing:
\* wait for check_interval and start the next cycle
approach_blocked ==
    /\ \/ approach_pc = "braked" /\ UNCHANGED obstacle_detected
       \/ /\ approach_pc = "loop"
          /\ LoopRuns
          /\ obstacle_detected' = NearAt(now - start_time)
          /\ Blocks(obstacle_detected')
          /\ ~is_moving
    /\ IF is_moving
       THEN StopActionBody
       ELSE UNCHANGED <<action_history, current_action, action_start_time>>
    /\ is_moving' = FALSE
    /\ is_blocked' = TRUE
    /\ now' = now + check_interval
    /\ approach_pc' = "loop"
    /\ UNCHANGED <<start_time, scenarioVars, apprRest, motorVars>>

\* lines 81-86: the path is clear again
approach_resume ==
    /\ approach_pc = "loop"
    /\ LoopRuns
    /\ obstacle_detected' = NearAt(now - start_time)
    /\ ~Blocks(obstacle_detected')
    /\ is_blocked
    /\ is_blocked' = FALSE
    /\ now' = now + RESUME_SLEEP
    /\ approach_pc' = "vision"
    /\ UNCHANGED <<start_time, is_moving, scenarioVars, apprRest, motorVars,
                   action_history, current_action, action_start_time>>

\* lines 88-135: the visual distance check, then stop and leave the loop,
\* or move forward and yield
approach_vision ==
    /\ \/ approach_pc = "vision" /\ UNCHANGED obstacle_detected
       \/ /\ approach_pc = "loop"
          /\ LoopRuns
          /\ obstacle_detected' = NearAt(now - start_time)
          /\ ~Blocks(obstacle_detected')
          /\ ~is_blocked
    /\ LET stop_signal == CloseAt(now - start_time)
       IN  IF stop_signal
           THEN /\ IF is_moving
                   THEN MotorStop("main") /\ StopActionBody
                   ELSE UNCHANGED <<motorVars, action_history,
                                    current_action, action_start_time>>
                /\ is_moving' = FALSE
                /\ approach_pc' = "after"
                /\ UNCHANGED now
           ELSE /\ IF ~is_moving
                   THEN /\ RecorderStart("move", "forward")
                        /\ MotorDrive("main", "forward")
                   ELSE UNCHANGED <<motorVars, action_history,
                                    current_action, action_start_time>>
                /\ is_moving' = TRUE
                /\ now' = now + YIELD_SLEEP
                /\ approach_pc' = "loop"
    /\ UNCHANGED <<start_time, is_blocked, scenarioVars, apprRest>>

\* lines 137-144: after the loop
approach_return ==
    /\ \/ approach_pc = "after"
       \/ approach_pc = "loop" /\ ~LoopRuns
    /\ IF is_moving
       THEN MotorStop("main") /\ StopActionBody
       ELSE UNCHANGED <<motorVars, action_history, current_action,
                        action_start_time>>
    /\ approach_pc' = "returned"
    /\ UNCHANGED <<now, start_time, is_blocked, is_moving, obstacle_detected,
                   scenarioVars, apprRest>>

(***************************************************************************)
(*        BehaviorController.follow_familiar_person (lines 308-436)        *)
(***************************************************************************)
\* FACE_CLOSE_EYE_DISTANCE (config.py:126), in pixels
FACE_CLOSE_EYE_DISTANCE == 85
\* the deadband of line 392, in percent of the target
FOLLOW_MARGIN == 15
\* the anti-jitter limit of line 356
MAX_CONSECUTIVE == 6
\* the sleeps of a rotation burst and of a movement burst (lines 382, 403)
ROTATE_BURST == 10
MOVE_BURST == 15
\* raw_offset_ratio, in hundredths of the frame width, and raw_eye_dist,
\* in pixels: left of, on and right of the centre; far, good and close
RawOffsets == {-30, 0, 30}
RawEyeDists == {60, 85, 110}

\* _smooth_eye_dist = _smooth_offset = None
NoSmooth == [set |-> FALSE, eye_dist |-> 0, offset |-> 0]
\* old * (1 - alpha) + raw * alpha with alpha = 0.7 (lines 343-349),
\* rounded down to a whole unit
Ema(old, raw) == (old * 3 + raw * 7) \div 10
Smoothed(raw_offset, raw_eye_dist) ==
    IF ~smooth.set
    THEN [set |-> TRUE, eye_dist |-> raw_eye_dist, offset |-> raw_offset]
    ELSE [set |-> TRUE,
          eye_dist |-> Ema(smooth.eye_dist, raw_eye_dist),
          offset |-> Ema(smooth.offset, raw_offset)]

InitFollow ==
    /\ smooth = NoSmooth
    /\ familiar_consecutive_actions = 0
    /\ follow_burst = NoArg
    /\ follow_ret = "none"
    /\ action_run = 0

\* the anti-jitter guard never holds
CooldownNever(count) == FALSE
\* the anti-jitter guard (line 356)
CooldownDue(count) == count > MAX_CONSECUTIVE

\* a control logic that looked at the distance first
CorrectionDistanceFirst(s) ==
    IF s.eye_dist * 100 < FACE_CLOSE_EYE_DISTANCE * (100 - FOLLOW_MARGIN)
    THEN [type |-> "move", direction |-> "forward", duration |-> MOVE_BURST]
    ELSE IF s.eye_dist * 100 > FACE_CLOSE_EYE_DISTANCE * (100 + FOLLOW_MARGIN)
    THEN [type |-> "move", direction |-> "backward", duration |-> MOVE_BURST]
    ELSE IF Abs(s.offset) > FACE_CENTER_TOLERANCE
    THEN [type |-> "rotate",
          direction |-> IF s.offset > 0 THEN "right" ELSE "left",
          duration |-> ROTATE_BURST]
    ELSE NoArg
\* the correction of the control logic (lines 366-423): none when the face
\* is centred at a good distance
Correction(s) ==
    IF Abs(s.offset) > FACE_CENTER_TOLERANCE
    THEN [type |-> "rotate",
          direction |-> IF s.offset > 0 THEN "right" ELSE "left",
          duration |-> ROTATE_BURST]
    ELSE IF s.eye_dist * 100 < FACE_CLOSE_EYE_DISTANCE * (100 - FOLLOW_MARGIN)
    THEN [type |-> "move", direction |-> "forward", duration |-> MOVE_BURST]
    ELSE IF s.eye_dist * 100 > FACE_CLOSE_EYE_DISTANCE * (100 + FOLLOW_MARGIN)
    THEN [type |-> "move", direction |-> "backward", duration |-> MOVE_BURST]
    ELSE NoArg

\* the calls of a correction, in the order of lines 375-384, 398-402 and
\* 411-415; none without a correction
BurstCalls(burst) ==
    IF burst = NoArg
    THEN <<>>
    ELSE <<"start_action", CommandOf(burst.type, burst.direction), "sleep",
           "stop", "stop_action">>

\* the motor after a burst: a drive command, then stop()
BurstDriven ==
    /\ motor_cmd' = IF motor_on THEN "stop" ELSE motor_cmd
    /\ motor_by' = IF motor_on THEN "main" ELSE motor_by
    /\ motor_is_moving' = (~motor_on /\ motor_is_moving)
    /\ UNCHANGED motor_seq

\* lines 309-310: no motor
follow_no_motor ==
    /\ ~motor_on
    /\ follow_ret' = "false"
    /\ follow_burst' = NoArg
    /\ UNCHANGED <<smooth, familiar_consecutive_actions, action_run,
                   motorVars>>
\* lines 316-325: no frame or no face
follow_face_lost ==
    /\ motor_on
    /\ follow_ret' = "false"
    /\ follow_burst' = NoArg
    /\ UNCHANGED <<smooth, familiar_consecutive_actions, action_run,
                   motorVars>>
\* lines 327-431: a face
follow_familiar_person(raw_offset, raw_eye_dist) ==
    /\ motor_on
    /\ follow_ret' = "true"
    /\ LET s == Smoothed(raw_offset, raw_eye_dist)
           c == Correction(s)
       IN  IF CooldownDue(familiar_consecutive_actions)
           THEN /\ familiar_consecutive_actions' = 0
                /\ smooth' = NoSmooth
                /\ follow_burst' = NoArg
                /\ action_run' = 0
                /\ UNCHANGED motorVars
           ELSE /\ smooth' = s
                /\ follow_burst' = c
                /\ IF c # NoArg
                   THEN /\ BurstDriven
                        /\ familiar_consecutive_actions' =
                              familiar_consecutive_actions + 1
                        /\ action_run' = action_run + 1
                   ELSE /\ UNCHANGED motorVars
                        /\ familiar_consecutive_actions' = 0
                        /\ action_run' = 0
\* reset_follow_state (lines 433-436), when the robot leaves the person
reset_follow_state ==
    /\ smooth' = NoSmooth
    /\ familiar_consecutive_actions' = 0
    /\ action_run' = 0
    /\ UNCHANGED <<follow_burst, follow_ret, motorVars>>

(***************************************************************************)
(*   ActionRecorder.execute_return_action (lines 145-182), called by       *)
(*   WallE._update_returning from the loop of run() (main.py:620-695)      *)
(***************************************************************************)
ROTATE_STEP_DURATION == 15
ROTATE_STEP_PAUSE == 8
\* time.sleep(0.1), the stabilization time (line 180)
STABILIZE_SLEEP == 10
\* time.sleep(0.5) of run() after an obstacle while returning (main.py:690)
OBSTACLE_SLEEP == 50

NoInfo == [type |-> "none", direction |-> "none",
           original_direction |-> "none", duration |-> 0,
           index |-> 0, total |-> 0]
InitReplay ==
    /\ replay_pc = "idle"
    /\ action_info = NoInfo
    /\ replay_step = 0
    /\ on_time = 0
    /\ replay_cmd = "none"
    /\ obstacle_near = FALSE

\* total_steps = int(duration / step_duration) (line 160)
total_steps(duration) == duration \div ROTATE_STEP_DURATION

replayRest == <<state, fearVars, voice_paused, threadVars, main_move,
                main_start, tickVars, current_action, action_start_time>>

\* lines 146-150: nothing left under the cursor
replay_finish ==
    /\ replay_pc = "idle"
    /\ is_returning
    /\ return_action_index < 0
    /\ is_returning' = FALSE
    /\ action_history' = <<>>
    /\ replay_pc' = "done"
    /\ UNCHANGED <<now, return_action_index, action_info, replay_step,
                   on_time, replay_cmd, obstacle_near, motorVars,
                   replayRest>>
\* lines 146-177: the action under the cursor; with a motor a move starts,
\* a rotation goes to its pulses; without one the call only sleeps
replay_begin ==
    /\ replay_pc = "idle"
    /\ is_returning
    /\ return_action_index >= 0
    /\ return_action_index < Len(action_history)
    /\ action_info' = get_next_return_action
    /\ replay_step' = 0
    /\ on_time' = 0
    /\ IF ~motor_on
       THEN /\ now' = now + action_info'.duration
            /\ replay_cmd' = "none"
            /\ replay_pc' = "stabilize"
            /\ UNCHANGED motorVars
       ELSE IF action_info'.type = "rotate"
       THEN /\ replay_cmd' = "none"
            /\ replay_pc' = "pulse"
            /\ UNCHANGED <<now, motorVars>>
       ELSE /\ MotorDrive("main", IF action_info'.direction = "forward"
                                  THEN "forward" ELSE "backward")
            /\ replay_cmd' = motor_cmd'
            /\ replay_pc' = "moving"
            /\ UNCHANGED now
    /\ UNCHANGED <<action_history, is_returning, return_action_index,
                   obstacle_near, replayRest>>
\* lines 162-166: one more pulse starts
replay_pulse ==
    /\ replay_pc = "pulse"
    /\ replay_step < total_steps(action_info.duration)
    /\ MotorDrive("main", IF action_info.direction = "left"
                          THEN "turn_left" ELSE "turn_right")
    /\ replay_cmd' = motor_cmd'
    /\ replay_pc' = "pulsing"
    /\ UNCHANGED <<now, action_history, is_returning, return_action_index,
                   action_info, replay_step, on_time, obstacle_near,
                   replayRest>>
\* lines 167-169: the pulse ends, and the pause after it
replay_pulse_ends ==
    /\ replay_pc = "pulsing"
    /\ MotorStop("main")
    /\ on_time' = on_time + ROTATE_STEP_DURATION
    /\ now' = now + ROTATE_STEP_DURATION + ROTATE_STEP_PAUSE
    /\ replay_step' = replay_step + 1
    /\ replay_pc' = "pulse"
    /\ UNCHANGED <<action_history, is_returning, return_action_index,
                   action_info, replay_cmd, obstacle_near, replayRest>>
\* line 162: the pulses are given
replay_pulses_given ==
    /\ replay_pc = "pulse"
    /\ replay_step >= total_steps(action_info.duration)
    /\ replay_pc' = "stabilize"
    /\ UNCHANGED <<now, action_history, is_returning, return_action_index,
                   action_info, replay_step, on_time, replay_cmd,
                   obstacle_near, motorVars, replayRest>>
\* lines 177-178: the move has lasted its duration
replay_move_ends ==
    /\ replay_pc = "moving"
    /\ MotorStop("main")
    /\ on_time' = on_time + action_info.duration
    /\ now' = now + action_info.duration
    /\ replay_pc' = "stabilize"
    /\ UNCHANGED <<action_history, is_returning, return_action_index,
                   action_info, replay_step, replay_cmd, obstacle_near,
                   replayRest>>
\* lines 180-182: stabilization, the cursor moves on, False is returned
replay_advance ==
    /\ replay_pc = "stabilize"
    /\ now' = now + STABILIZE_SLEEP
    /\ return_action_index' = return_action_index - 1
    /\ replay_pc' = "check"
    /\ UNCHANGED <<action_history, is_returning, action_info, replay_step,
                   on_time, replay_cmd, obstacle_near, motorVars,
                   replayRest>>
\* run(), lines 681-695: after the update function the ultrasonic check
returning_check ==
    /\ replay_pc = "check"
    /\ IF obstacle_near
       THEN MotorStop("main") /\ now' = now + OBSTACLE_SLEEP + YIELD_SLEEP
       ELSE UNCHANGED motorVars /\ now' = now + YIELD_SLEEP
    /\ replay_pc' = "idle"
    /\ UNCHANGED <<action_history, is_returning, return_action_index,
                   action_info, replay_step, on_time, replay_cmd,
                   obstacle_near, replayRest>>
\* an object comes near the robot, or goes away
obstacle_changes ==
    /\ replay_pc # "done"
    /\ obstacle_near' = ~obstacle_near
    /\ UNCHANGED <<now, action_history, is_returning, return_action_index,
                   replay_pc, action_info, replay_step, on_time, replay_cmd,
                   motorVars, replayRest>>

(***************************************************************************)
(* InteractionHandler: the awake timer (interaction_handler.py:40-65).     *)
(* awake_time is also written by WallE.on_voice_command (main.py:207).     *)
(***************************************************************************)
AWAKE_TIMEOUT == 3000
AWAKE_ACTIVITY_EXTEND == TRUE

InitAwake ==
    /\ awake_time = 0
    /\ last_activity_time = 0
    /\ woke_at = 0
    /\ active_at = 0

\* the fields of the handler the awake timer does not use
awakeRest == <<timerVars, is_playing_audio, blocking_action_active>>

\* wake_up, lines 40-43
wake_up ==
    /\ is_awake' = TRUE
    /\ awake_time' = now
    /\ last_activity_time' = now
    /\ woke_at' = now
    /\ active_at' = now
    /\ Returns("none")
    /\ UNCHANGED awakeRest

\* update_activity, lines 45-46
update_activity ==
    /\ last_activity_time' = now
    /\ active_at' = now
    /\ Returns("none")
    /\ UNCHANGED <<is_awake, awake_time, woke_at, awakeRest>>

\* line 53: the activity is recent enough to postpone the timeout
ExtendsNever(since) == FALSE
Extends(since) == AWAKE_ACTIVITY_EXTEND /\ since < AWAKE_TIMEOUT

\* check_awake_timeout, lines 48-62
check_awake_timeout ==
    /\ IF ~is_awake
       THEN Returns("false") /\ UNCHANGED is_awake
       ELSE IF Extends(now - last_activity_time)
            THEN Returns("false") /\ UNCHANGED is_awake
            ELSE IF now - awake_time >= AWAKE_TIMEOUT
                 THEN Returns("true") /\ is_awake' = FALSE
                 ELSE Returns("false") /\ UNCHANGED is_awake
    /\ UNCHANGED <<awakeVars, awakeRest>>

\* sleep, lines 64-65
sleep ==
    /\ is_awake' = FALSE
    /\ Returns("none")
    /\ UNCHANGED <<awakeVars, awakeRest>>

\* on_voice_command, main.py:193-207, as far as the awake timer goes: an
\* accepted command sets awake_time
command_extends_awake ==
    /\ Accepted
    /\ awake_time' = now
    /\ Returns("none")
    /\ UNCHANGED <<is_awake, last_activity_time, woke_at, active_at,
                   awakeRest>>

\* time.time() moves on between two calls
AwakeTick(d) ==
    /\ now + d <= MaxTimerClock
    /\ now' = now + d
    /\ Returns("none")
    /\ UNCHANGED <<is_awake, awakeVars, awakeRest>>

(***************************************************************************)
(* WallE (main.py), one pass of run() in two steps: what the update        *)
(* function, and then the rest of the pass, do to the state, the           *)
(* recognition counters, the registration fields, the search progress and  *)
(* the recorded history.  on_voice_wake and on_voice_command come in       *)
(* between.  The timers' answers, the camera and the recogniser are input. *)
(* Of the moves only the rotations of the search and the flinch are        *)
(* recorded here; the spin and the motor are in the sections above.        *)
(*                                                                         *)
(* Time is read relative to the present: `now' stays at LifeHorizon and    *)
(* time passing moves every time stamp into the past, down to 0.  The      *)
(* stamps are compared with pauses of 0.5 s only, shorter than the         *)
(* horizon.                                                                *)
(***************************************************************************)
SAMPLE_INTERVAL == 3

Aged(stamp, d) == Max(0, stamp - d)

InitLife ==
    /\ frame_count = 0
    /\ flinches = 0
    /\ samples = 0
    /\ completions = 0
    /\ heard = "none"
    /\ state_left = "none"

lifeRecog == <<recognition_counters, recognition_active_label,
               no_face_count>>
lifeSearch == <<search_step, search_cycle, last_rotation_time,
                face_found_in_search>>
lifeFlags == <<is_awake, is_playing_audio>>
lifeCounts == <<flinches, samples, completions>>

\* the observations of one step: what the step before did is forgotten
Observed(wake) ==
    /\ heard' = wake
    /\ state_left' = IF state' # state THEN state ELSE "none"
Quiet == Observed("none")

\* the main thread is at the top of the loop, in state s, and not held by
\* the latch (main.py:658-677)
InPass(s) == main_pc = "top" /\ state = s /\ ~blocking_action_active

\* lines 680-695: while returning the rest of the pass is skipped
PassGoesOn == main_pc' = IF is_returning' THEN "top" ELSE "events"

\* RecognitionHandler.reset_counters as the callers in main.py use it
CountersKeptAsTheyAre == recognition_counters
CountersReset == ZeroCounters

\* search.reset(), search_controller.py:20-24
SearchReset ==
    /\ search_step' = 0
    /\ search_cycle' = 0
    /\ last_rotation_time' = 0
    /\ face_found_in_search' = FALSE

\* ---- _update_idle (lines 352-357)
pass_idle ==
    /\ InPass("IDLE")
    /\ UNCHANGED <<state, fearVars, lifeRecog, registrationVars, lifeSearch,
                   recorderCore, lifeFlags, frame_count, lifeCounts>>
    /\ PassGoesOn
    /\ Quiet

\* ---- _update_searching (lines 359-397)
InRotationPause == now - last_rotation_time < SEARCH_ROTATE_PAUSE

\* a face was found: on_face_found, reset_counters, TRACKING
FaceFound ==
    /\ face_found_in_search' = TRUE
    /\ recognition_counters' = CountersReset
    /\ state' = "TRACKING"
    /\ UNCHANGED <<recognition_active_label, no_face_count>>

\* in the pause after a rotation: detect_face_in_search (lines 363-369)
pass_searching_pause(found) ==
    /\ InPass("SEARCHING")
    /\ InRotationPause
    /\ IF found
       THEN FaceFound
       ELSE UNCHANGED <<state, lifeRecog, face_found_in_search>>
    /\ UNCHANGED <<fearVars, registrationVars, search_step, search_cycle,
                   last_rotation_time, recorderCore, lifeFlags, frame_count,
                   lifeCounts>>
    /\ PassGoesOn
    /\ Quiet

\* the script is complete (lines 374-378)
pass_searching_complete ==
    /\ InPass("SEARCHING")
    /\ ~InRotationPause
    /\ NextSearchAction(search_step).action = "complete"
    /\ StartReturning
    /\ UNCHANGED <<fearVars, lifeRecog, registrationVars, lifeSearch,
                   lifeFlags, frame_count, lifeCounts>>
    /\ PassGoesOn
    /\ Quiet

\* when a face is found during a rotation the rotation has lasted this
\* long: less than the 0.1 s from which on it is recorded
EarlyStops == {0}

\* rotate_and_detect records the rotation if it took more than 0.1 s
\* (search_controller.py:137-141, action_recorder.py:62-77)
Recorded(type, direction, spent) ==
    IF spent > 10 /\ ~is_returning /\ spent >= MIN_DURATION
    THEN Append(action_history, [type |-> type, direction |-> direction,
                                 duration |-> spent])
    ELSE action_history

\* a rotation of the script (lines 380-397): it blocks for `spent'
pass_searching_rotate(found, spent) ==
    /\ InPass("SEARCHING")
    /\ ~InRotationPause
    /\ NextSearchAction(search_step).action # "complete"
    /\ LET info == NextSearchAction(search_step)
           direction == IF info.action = "rotate_left" THEN "left"
                                                       ELSE "right"
       IN  /\ spent = IF found THEN spent ELSE info.duration
           /\ action_history' = Recorded("rotate", direction, spent)
    /\ IF found
       THEN /\ FaceFound
            /\ last_rotation_time' = Aged(last_rotation_time, spent)
            /\ UNCHANGED <<search_step, search_cycle>>
       ELSE /\ last_rotation_time' = now
            /\ search_step' = Advanced(search_step, search_cycle)[1]
            /\ search_cycle' = Advanced(search_step, search_cycle)[2]
            /\ UNCHANGED <<state, lifeRecog, face_found_in_search>>
    /\ fear_start_time' = Aged(fear_start_time, spent)
    /\ UNCHANGED <<fear_action_done, registrationVars, current_action,
                   action_start_time, is_returning, return_action_index,
                   lifeFlags, frame_count, lifeCounts>>
    /\ PassGoesOn
    /\ Quiet

\* ---- _update_tracking (lines 399-477)
\* camera.read() gives no frame
pass_tracking_no_frame ==
    /\ InPass("TRACKING")
    /\ UNCHANGED <<state, fearVars, lifeRecog, registrationVars, lifeSearch,
                   recorderCore, lifeFlags, frame_count, lifeCounts>>
    /\ PassGoesOn
    /\ Quiet

\* the frame may show no face
FaceMayHide == no_face_count + LifeLostRun >= NO_FACE_RESET_COUNT
\* a face that hides from SHOCKED stays hidden, and nothing else happens,
\* until the robot gives it up
FaceStaysHidden == state = "SHOCKED" /\ 0 < no_face_count
\* it hides from a robot that found it in the first pause of the search,
\* with no registration and no playback under way
FaceHidesFromShocked ==
    \/ FaceStaysHidden
    \/ /\ action_history = <<>>
       /\ ~is_registering
       /\ ~is_playing_audio

\* on_face_lost (recognition_handler.py:49-58) said True
FaceGone == no_face_count + 1 >= NO_FACE_RESET_COUNT
\* what on_face_lost leaves
FaceLost ==
    IF FaceGone
    THEN /\ recognition_active_label' = "none"
         /\ recognition_counters' = ZeroCounters
         /\ no_face_count' = 0
    ELSE /\ no_face_count' = no_face_count + 1
         /\ recognition_counters' = Decayed(recognition_counters)
         /\ UNCHANGED recognition_active_label

\* no face in the frame (lines 414-423)
pass_tracking_lost ==
    /\ InPass("TRACKING")
    /\ FaceMayHide
    /\ FaceLost
    /\ state' = IF FaceGone THEN "SEARCHING" ELSE state
    /\ UNCHANGED <<fearVars, registrationVars, lifeSearch, recorderCore,
                   lifeFlags, frame_count, lifeCounts>>
    /\ PassGoesOn
    /\ Quiet

\* a face with this label (lines 425-477); once confirmed, centring and
\* the approach block for `spent'
pass_tracking_face(label, spent) ==
    /\ InPass("TRACKING")
    /\ no_face_count' = 0
    /\ LET counted == Updated(recognition_counters, label)
       IN  IF counted[label] >= EMOTION_CONFIRM_COUNT
           THEN /\ recognition_counters' = CountersReset
                /\ state' = IF label = "familiar" THEN "FAMILIAR_STAY"
                                                  ELSE "SHOCKED"
                /\ fear_start_time' = Aged(fear_start_time, spent)
                /\ last_rotation_time' = Aged(last_rotation_time, spent)
           ELSE /\ recognition_counters' = counted
                /\ spent = 0
                /\ UNCHANGED <<state, fear_start_time, last_rotation_time>>
    /\ UNCHANGED <<recognition_active_label, fear_action_done,
                   registrationVars, search_step, search_cycle,
                   face_found_in_search, recorderCore, lifeFlags,
                   frame_count, lifeCounts>>
    /\ PassGoesOn
    /\ Quiet

\* ---- _update_familiar_stay (lines 513-543)
pass_familiar_stay(timeout) ==
    /\ InPass("FAMILIAR_STAY")
    /\ IF timeout THEN StartReturning
                  ELSE UNCHANGED <<state, recorderCore>>
    /\ UNCHANGED <<fearVars, lifeRecog, registrationVars, lifeSearch,
                   lifeFlags, frame_count, lifeCounts>>
    /\ PassGoesOn
    /\ Quiet

\* ---- _update_shocked (lines 545-580)
pass_shocked_timeout ==
    /\ InPass("SHOCKED")
    /\ StartReturning
    /\ UNCHANGED <<fearVars, lifeRecog, registrationVars, lifeSearch,
                   lifeFlags, frame_count, lifeCounts>>
    /\ PassGoesOn
    /\ Quiet

\* no face in the frame (lines 569-574)
pass_shocked_lost ==
    /\ InPass("SHOCKED")
    /\ FaceLost
    /\ IF FaceGone THEN StartReturning
                   ELSE UNCHANGED <<state, recorderCore>>
    /\ UNCHANGED <<fearVars, registrationVars, lifeSearch, lifeFlags,
                   frame_count, lifeCounts>>
    /\ PassGoesOn
    /\ Quiet

\* a face: on_face_detected (line 576); or no frame
pass_shocked_watch(face) ==
    /\ InPass("SHOCKED")
    /\ no_face_count' = IF face THEN 0 ELSE no_face_count
    /\ UNCHANGED <<state, fearVars, recognition_counters,
                   recognition_active_label, registrationVars, lifeSearch,
                   recorderCore, lifeFlags, frame_count, lifeCounts>>
    /\ PassGoesOn
    /\ Quiet

\* ---- _update_stranger_observe (lines 582-618)
\* the backward move: with the motor it does not block and lasts no time
\* for the recorder; without it the pass sleeps 1.5 s
FLINCH == 150
pass_stranger_observe ==
    /\ InPass("STRANGER_OBSERVE")
    /\ IF ~fear_action_done
       THEN /\ action_history' = Recorded("move", "backward",
                                          IF motor_on THEN 0 ELSE FLINCH)
            /\ last_rotation_time' =
                  Aged(last_rotation_time, IF motor_on THEN 0 ELSE FLINCH)
            /\ fear_action_done' = TRUE
            /\ fear_start_time' = now
            /\ flinches' = flinches + 1
            /\ UNCHANGED state
       ELSE /\ IF now - fear_start_time > FEAR_PAUSE
               THEN state' = "SHOCKED" /\ fear_action_done' = FALSE
               ELSE UNCHANGED <<state, fear_action_done>>
            /\ UNCHANGED <<action_history, last_rotation_time,
                           fear_start_time, flinches>>
    /\ UNCHANGED <<lifeRecog, registrationVars, search_step, search_cycle,
                   face_found_in_search, current_action, action_start_time,
                   is_returning, return_action_index, lifeFlags,
                   frame_count, samples, completions>>
    /\ PassGoesOn
    /\ Quiet

\* ---- _update_returning (lines 620-633)
pass_returning ==
    /\ InPass("RETURNING")
    /\ IF return_action_index < 0
       THEN /\ is_returning' = FALSE
            /\ ClearBody
            /\ state' = "IDLE"
            /\ UNCHANGED <<return_action_index, fear_start_time,
                           last_rotation_time>>
       ELSE /\ return_action_index < Len(action_history)
            /\ return_action_index' = return_action_index - 1
            /\ LET spent == get_next_return_action.duration
               IN  /\ fear_start_time' = Aged(fear_start_time, spent)
                   /\ last_rotation_time' = Aged(last_rotation_time, spent)
            /\ UNCHANGED <<state, action_history, current_action,
                           action_start_time, is_returning>>
    /\ UNCHANGED <<fear_action_done, lifeRecog, registrationVars,
                   search_step, search_cycle, face_found_in_search,
                   lifeFlags, frame_count, lifeCounts>>
    /\ PassGoesOn
    /\ Quiet

\* ---- run(), lines 703-802: the audio check, the touch events, the
\* registration (_handle_registration, lines 332-348) and the frame count
Touches == {"none", "short", "long"}

\* the wake of a touch or of the wake phrase (lines 250-257, 785-794),
\* but for the state
WakesUpWhereTheSearchWas ==
    /\ ClearBody
    /\ is_awake' = TRUE
    /\ UNCHANGED lifeSearch
WakesUp ==
    /\ ClearBody
    /\ is_awake' = TRUE
    /\ SearchReset

\* handle_touch_end answers "excited" (touch_handler.py:24)
Excited(touch) == touch = "long"

pass_events(music_playing, touch, frame_ok, success) ==
    /\ main_pc = "events"
    /\ main_pc' = "top"
    /\ LET playing == is_playing_audio /\ music_playing
           \* a touch during the playback stops it and ends the pass
           stopped == touch # "none" /\ playing
           entered == ~stopped /\ touch # "none" /\ state = "SHOCKED"
           woken == ~stopped /\ Excited(touch) /\ state = "IDLE"
           request == /\ ~stopped
                      /\ is_registering
                      /\ frame_ok
                      /\ frame_count % SAMPLE_INTERVAL = 0
           sample == request /\ success
           \* on_complete: reset_counters, TRACKING
           done == sample /\ SamplesSuffice(register_count + 1)
       IN  /\ is_playing_audio' = (playing /\ ~stopped)
           /\ IF woken
              THEN WakesUp
              ELSE UNCHANGED <<is_awake, lifeSearch, action_history,
                               current_action, action_start_time>>
           /\ state' = IF done THEN "TRACKING"
                       ELSE IF entered THEN "STRANGER_OBSERVE"
                       ELSE IF woken THEN "SEARCHING"
                       ELSE state
           /\ flinches' = IF entered THEN 0 ELSE flinches
           /\ is_registering' = (is_registering /\ ~done)
           /\ register_name' = IF done THEN "" ELSE register_name
           /\ register_count' = IF done THEN 0
                                ELSE IF sample THEN register_count + 1
                                ELSE register_count
           /\ recognition_counters' = IF done THEN CountersReset
                                      ELSE recognition_counters
           /\ samples' = IF sample THEN samples + 1 ELSE samples
           /\ completions' = IF done THEN completions + 1 ELSE completions
           /\ frame_count' = IF stopped THEN frame_count
                             ELSE (frame_count + 1) % SAMPLE_INTERVAL
           /\ Observed(IF ~Excited(touch) THEN "none"
                       ELSE IF woken THEN "woke" ELSE "refused")
    /\ UNCHANGED <<fearVars, recognition_active_label, no_face_count,
                   is_returning, return_action_index>>

\* ---- on_voice_wake, on the voice-listener thread (lines 235-257)
voice_wake ==
    /\ IF ~is_registering /\ ~is_returning /\ state = "IDLE"
       THEN WakesUp /\ state' = "SEARCHING" /\ Observed("woke")
       ELSE /\ UNCHANGED <<state, is_awake, lifeSearch, action_history,
                           current_action, action_start_time>>
            /\ Observed("refused")
    /\ UNCHANGED <<fearVars, main_pc, lifeRecog, registrationVars,
                   is_returning, return_action_index, is_playing_audio,
                   frame_count, lifeCounts>>

\* ---- on_voice_command, on the voice-listener thread (lines 191-233)
\* "friends": start_registration (recognition_handler.py:75-87)
voice_command_friends ==
    /\ Accepted
    /\ is_registering' = TRUE
    /\ register_name' = "person"
    /\ register_count' = 0
    /\ samples' = 0
    /\ completions' = 0
    /\ UNCHANGED <<state, fearVars, main_pc, lifeRecog, lifeSearch,
                   recorderCore, lifeFlags, frame_count, flinches>>
    /\ Quiet

\* "sing" with the audio file in place: do_sing
voice_command_sing ==
    /\ Accepted
    /\ state = "FAMILIAR_STAY"
    /\ is_playing_audio' = TRUE
    /\ UNCHANGED <<state, fearVars, main_pc, lifeRecog, registrationVars,
                   lifeSearch, recorderCore, is_awake, frame_count,
                   lifeCounts>>
    /\ Quiet

\* "back": _start_returning
voice_command_back ==
    /\ Accepted
    /\ state = "FAMILIAR_STAY"
    /\ StartReturning
    /\ UNCHANGED <<fearVars, main_pc, lifeRecog, registrationVars,
                   lifeSearch, lifeFlags, frame_count, lifeCounts>>
    /\ Quiet

\* time passes between two steps
LifeTick(d) ==
    /\ <<Aged(fear_start_time, d), Aged(last_rotation_time, d)>>
          # <<fear_start_time, last_rotation_time>>
    /\ fear_start_time' = Aged(fear_start_time, d)
    /\ last_rotation_time' = Aged(last_rotation_time, d)
    /\ UNCHANGED <<state, fear_action_done, main_pc, lifeRecog,
                   registrationVars, search_step, search_cycle,
                   face_found_in_search, recorderCore, lifeFlags,
                   lifeVars>>

(***************************************************************************)
(* SearchController.center_face and _do_center_rotation                    *)
(* (search_controller.py:169-305).  An offset is the distance of the face  *)
(* from the middle of the frame in hundredths of the frame width; a frame  *)
(* is <<offset>>, or <<>> without a face or without a frame.               *)
(***************************************************************************)
MAX_CENTER_RETRIES == 3
FACE_CENTER_TIMEOUT == 300
FACE_CENTER_STEP_DURATION == 15
FACE_CENTER_STEP_PAUSE == 50
\* max_steps, line 240
max_steps ==
    FACE_CENTER_TIMEOUT \div (FACE_CENTER_STEP_DURATION
                                + FACE_CENTER_STEP_PAUSE)

InitCenter ==
    /\ cf_pc = "idle"
    /\ cf_retry = 0
    /\ cf_face = 0
    /\ cf_direction = "none"
    /\ cf_step = 0
    /\ cf_rotate_time = 0
    /\ last_face_rect = <<>>
    /\ cf_centered = FALSE
    /\ cf_overshot = FALSE
    /\ cf_ret = "none"

centerLocals == <<cf_direction, cf_step, cf_rotate_time, last_face_rect,
                  cf_centered, cf_overshot>>

\* center_face is called with a face (lines 169-181)
center_face(offset) ==
    /\ cf_pc = "idle"
    /\ cf_face' = offset
    /\ IF motor_on
       THEN cf_pc' = "retry" /\ UNCHANGED cf_ret
       ELSE cf_pc' = "done" /\ cf_ret' = "true"
    /\ UNCHANGED <<cf_retry, centerLocals, action_history>>

\* the head of the loop over the passes (lines 185-212), and its end
\* (lines 232-233)
center_retry ==
    /\ cf_pc = "retry"
    /\ IF cf_retry >= MAX_CENTER_RETRIES \/ IsCentered(cf_face)
       THEN /\ cf_pc' = "done"
            /\ cf_ret' = "true"
            /\ UNCHANGED centerLocals
       ELSE /\ cf_pc' = "pulse"
            /\ cf_direction' = OffsetDirection(cf_face)
            /\ cf_step' = 0
            /\ cf_rotate_time' = 0
            /\ last_face_rect' = <<>>
            /\ cf_centered' = FALSE
            /\ cf_overshot' = FALSE
            /\ UNCHANGED cf_ret
    /\ UNCHANGED <<cf_retry, cf_face, action_history>>

\* the overshoot test, lines 285-290
OvershootsNever(offset, towards) == FALSE
Overshoots(offset, towards) == OffsetDirection(offset) # towards

\* one pulse of a pass and the frame read after it (lines 247-293)
center_pulse(frame) ==
    /\ cf_pc = "pulse"
    /\ cf_step' = cf_step + 1
    /\ cf_rotate_time' = cf_rotate_time + FACE_CENTER_STEP_DURATION
    /\ IF frame = <<>>
       THEN UNCHANGED <<last_face_rect, cf_centered, cf_overshot>>
       ELSE /\ last_face_rect' = frame
            /\ cf_centered' = IsCentered(frame[1])
            /\ cf_overshot' = (~IsCentered(frame[1])
                                  /\ Overshoots(frame[1], cf_direction))
    /\ cf_pc' = IF cf_centered' \/ cf_overshot' \/ cf_step + 1 >= max_steps
                THEN "record"
                ELSE "pulse"
    /\ UNCHANGED <<cf_retry, cf_face, cf_direction, cf_ret, action_history>>

\* the end of a pass (lines 295-305) and what center_face makes of it
\* (lines 219-230)
center_pass_ends ==
    /\ cf_pc = "record"
    /\ action_history' = Recorded("rotate", cf_direction, cf_rotate_time)
    /\ IF cf_centered
       THEN /\ cf_pc' = "done" /\ cf_ret' = "true"
            /\ UNCHANGED <<cf_retry, cf_face>>
       ELSE IF last_face_rect = <<>>
       THEN /\ cf_pc' = "done" /\ cf_ret' = "false"
            /\ UNCHANGED <<cf_retry, cf_face>>
       ELSE /\ cf_pc' = "retry"
            /\ cf_face' = last_face_rect[1]
            /\ cf_retry' = cf_retry + 1
            /\ UNCHANGED cf_ret
    /\ UNCHANGED centerLocals

(***************************************************************************)
(* VoiceListener._listen_loop (voice_listener.py:160-233) with the         *)
(* callbacks of WallE, of which only what they do to the listener is       *)
(* modelled: do_sing and do_spin pause it (interaction_handler.py:149-193).*)
(* A callback may raise at each call it makes.                             *)
(***************************************************************************)
\* what a recorded segment says: a wake phrase, a command of
\* VOICE_COMMANDS (config.py:169-174), "other" words, or "none": no segment
\* within the timeout, an error of the recogniser, or no transcript
Segments == {"none", "other", "wake", "sing", "spin", "friends", "back"}

listenerRest ==
    <<voice_paused, is_playing_audio, blocking_action_active, is_awake>>

\* the loop sleeps while the listener is paused (lines 171-173)
listen_paused ==
    /\ listener_pc = "top"
    /\ listener_running
    /\ voice_paused
    /\ UNCHANGED <<listenerVars, listenerRest>>

\* the loop ends once running is false (line 170)
listen_ends ==
    /\ listener_pc = "top"
    /\ ~listener_running
    /\ listener_pc' = "ended"
    /\ UNCHANGED <<listener_running, segment, callback_step,
                   callback_raised, listenerRest>>

\* recognizer.listen and _transcribe (lines 175-210)
listen_record(said) ==
    /\ listener_pc = "top"
    /\ listener_running
    /\ ~voice_paused
    /\ segment' = said
    /\ listener_pc' = "recorded"
    /\ UNCHANGED <<listener_running, callback_step, callback_raised,
                   listenerRest>>

\* the segment is dropped if the listener was paused meanwhile (lines
\* 189-193), says nothing (lines 211-212) or holds neither a command nor
\* a wake phrase; else the callback is called (lines 214-233)
listen_deliver ==
    /\ listener_pc = "recorded"
    /\ IF voice_paused \/ segment \in {"none", "other"}
       THEN /\ listener_pc' = "top"
            /\ segment' = "none"
            /\ UNCHANGED callback_step
       ELSE /\ listener_pc' = "callback"
            /\ callback_step' = "called"
            /\ UNCHANGED segment
    /\ UNCHANGED <<listener_running, callback_raised, listenerRest>>

\* on_voice_command up to the pause of do_sing / do_spin; the wake phrase,
\* and a command that is not accepted (main.py:193-202, 217-222: the robot
\* sleeps, returns or is not with a familiar face), leave the listener alone
callback_begins(familiar) ==
    /\ listener_pc = "callback"
    /\ callback_step = "called"
    /\ IF is_awake /\ familiar /\ segment \in {"sing", "spin"}
       THEN /\ voice_paused' = TRUE
            /\ blocking_action_active' =
                  (blocking_action_active \/ segment = "spin")
            /\ callback_step' = "paused"
       ELSE /\ callback_step' = "body"
            /\ UNCHANGED <<voice_paused, blocking_action_active>>
    /\ UNCHANGED <<listener_running, listener_pc, segment, callback_raised,
                   is_playing_audio, is_awake>>

\* the wake phrase wakes the robot in IDLE (main.py:235-251,
\* interaction_handler.py:40-43)
Woken(idle) == is_awake \/ (idle /\ segment = "wake")

\* the loop is back at its top
BackAtTheTop(raised) ==
    /\ listener_pc' = "top"
    /\ segment' = "none"
    /\ callback_step' = "none"
    /\ callback_raised' = raised
    /\ UNCHANGED listener_running

\* the callback returns: do_sing has started the playback, or resumed the
\* listener if the file is missing; do_spin has resumed it; on_voice_wake
\* has woken the robot
callback_returns(file_exists, idle) ==
    /\ listener_pc = "callback"
    /\ callback_step \in {"paused", "body"}
    /\ IF callback_step = "paused" /\ segment = "sing"
       THEN /\ is_playing_audio' = (is_playing_audio \/ file_exists)
            /\ voice_paused' = file_exists
            /\ UNCHANGED <<blocking_action_active, is_awake>>
       ELSE IF callback_step = "paused"
       THEN /\ voice_paused' = FALSE
            /\ blocking_action_active' = FALSE
            /\ UNCHANGED <<is_playing_audio, is_awake>>
       ELSE /\ is_awake' = Woken(idle)
            /\ UNCHANGED <<voice_paused, is_playing_audio,
                           blocking_action_active>>
    /\ BackAtTheTop(FALSE)

\* the callback raises, and the loop catches the exception (lines 222-223,
\* 232-233); on_voice_wake may have woken the robot before it raised
callback_raises ==
    /\ listener_pc = "callback"
    /\ callback_step \in {"called", "paused", "body"}
    /\ BackAtTheTop(TRUE)
    /\ \E idle \in BOOLEAN :
          is_awake' = (IF callback_step = "body" THEN Woken(idle)
                                                ELSE is_awake)
    /\ UNCHANGED <<voice_paused, is_playing_audio, blocking_action_active>>

\* WallE.run: the playback is over, or a touch stops it (main.py:706-709,
\* 752-757); not while a blocking action holds the loop (lines 658-662)
playback_ends ==
    /\ is_playing_audio
    /\ ~blocking_action_active
    /\ is_playing_audio' = FALSE
    /\ voice_paused' = FALSE
    /\ UNCHANGED <<listenerVars, blocking_action_active, is_awake>>

\* WallE.run: the robot falls asleep (interaction_handler.py:48-61); not
\* while a blocking action holds the loop (main.py:658-662)
awake_times_out ==
    /\ is_awake
    /\ ~blocking_action_active
    /\ is_awake' = FALSE
    /\ UNCHANGED <<listenerVars, voice_paused, is_playing_audio,
                   blocking_action_active>>

\* VoiceListener.stop (lines 124-127)
listener_stop ==
    /\ listener_running
    /\ listener_running' = FALSE
    /\ UNCHANGED <<listener_pc, segment, callback_step, callback_raised,
                   listenerRest>>

InitListener ==
    /\ listener_running = TRUE
    /\ listener_pc = "top"
    /\ segment = "none"
    /\ callback_step = "none"
    /\ callback_raised = FALSE

(***************************************************************************)
(* The process: __main__ (main.py:841-847), the loop of WallE.run          *)
(* (lines 651-816) and WallE.cleanup (lines 818-838).  Of a pass of the    *)
(* loop only what starts, stops or leaves it is modelled.                  *)
(***************************************************************************)
\* the steps of cleanup(), in its order (lines 821-834)
CleanupSteps == <<"voice", "ultrasonic", "motor", "camera">>

\* debug_controller.process_commands (line 654; debug_controller.py:64-66):
\* `q' clears running, and the pass goes on
loop_commands(q) ==
    /\ proc_pc = "top"
    /\ running
    /\ running' = (running /\ ~q)
    /\ stopped_by' = IF q THEN "q" ELSE stopped_by
    /\ proc_pc' = "body"
    /\ UNCHANGED <<in_handler, cleanup_step, released, cleanups>>

\* the rest of the pass: the quit event clears running (lines 744-747)
loop_body(quit) ==
    /\ proc_pc = "body"
    /\ running' = (running /\ ~quit)
    /\ stopped_by' = IF quit /\ running THEN "quit" ELSE stopped_by
    /\ proc_pc' = "top"
    /\ UNCHANGED <<in_handler, cleanup_step, released, cleanups>>

\* a call made inside the pass raises an Exception: nothing in run()
\* catches it and __main__ catches KeyboardInterrupt only (lines 843-847),
\* so the process ends with the traceback
loop_raises ==
    /\ proc_pc \in {"top", "body"}
    /\ proc_pc = "top" => running
    /\ proc_pc' = "ended"
    /\ stopped_by' = "error"
    /\ UNCHANGED <<running, in_handler, cleanup_step, released, cleanups>>

\* the loop ends and run() calls cleanup (lines 652, 816)
loop_exit ==
    /\ proc_pc = "top"
    /\ ~running
    /\ proc_pc' = "cleanup"
    /\ cleanup_step' = 1
    /\ cleanups' = cleanups + 1
    /\ UNCHANGED <<running, in_handler, released, stopped_by>>

\* Ctrl-C while run() is on the stack: the except clause of __main__ calls
\* cleanup (lines 845-847); in the except clause itself nothing catches it
keyboard_interrupt ==
    /\ proc_pc # "ended"
    /\ IF in_handler
       THEN /\ proc_pc' = "ended"
            /\ UNCHANGED <<in_handler, cleanup_step, cleanups>>
       ELSE /\ proc_pc' = "cleanup"
            /\ in_handler' = TRUE
            /\ cleanup_step' = 1
            /\ cleanups' = cleanups + 1
    /\ stopped_by' = IF proc_pc = "cleanup" THEN stopped_by ELSE "interrupt"
    /\ UNCHANGED <<running, released>>

\* one step of cleanup(); `present' is false where the part is disabled
\* or absent (lines 824, 828, 831)
cleanup_next(present) ==
    /\ proc_pc = "cleanup"
    /\ released' = IF present THEN released \cup {CleanupSteps[cleanup_step]}
                              ELSE released
    /\ IF cleanup_step = Len(CleanupSteps)
       THEN proc_pc' = "ended" /\ UNCHANGED cleanup_step
       ELSE cleanup_step' = cleanup_step + 1 /\ UNCHANGED proc_pc
    /\ UNCHANGED <<running, in_handler, cleanups, stopped_by>>

\* a step of cleanup() raises an Exception, which nothing catches;
\* UltrasonicSensor.cleanup catches its own (ultrasonic_sensor.py:229-240)
cleanup_raises ==
    /\ proc_pc = "cleanup"
    /\ CleanupSteps[cleanup_step] # "ultrasonic"
    /\ proc_pc' = "ended"
    /\ UNCHANGED <<running, in_handler, cleanup_step, released, cleanups,
                   stopped_by>>

InitShutdown ==
    /\ running = TRUE
    /\ proc_pc = "top"
    /\ in_handler = FALSE
    /\ cleanup_step = 0
    /\ released = {}
    /\ cleanups = 0
    /\ stopped_by = "none"

InitLate ==
    /\ InitShutdown
    /\ last_command = "none"
    /\ follow_calls = <<>>
InitExtra ==
    InitAwake /\ InitLife /\ InitCenter /\ InitListener /\ InitLate
InitRoutines == InitApproach /\ InitFollow /\ InitReplay /\ InitExtra

InitBehaviours ==
    /\ InitTrack /\ motor_on = TRUE /\ InitInteraction /\ InitMain
    /\ InitRoutines

(***************************************************************************)
(*                          Specifications                                 *)
(***************************************************************************)
Init ==
    /\ InitRecorder /\ InitRecognition /\ InitSearch /\ now = 0
    /\ InitBehaviours
InitObserved == Init /\ run = "none"
InitUnobserved == Init /\ run = "off"

\* time.time() when the SearchController is built: the clock has long
\* passed SEARCH_ROTATE_PAUSE
ClockAtStart == 2 * SEARCH_ROTATE_PAUSE
InitSearching ==
    /\ InitRecorder /\ run = "off"
    /\ InitRecognition
    /\ InitSearch
    /\ now = ClockAtStart
    /\ InitBehaviours

\* two threads calling into one ActionRecorder
NextRecorder ==
    \/ \E t \in Threads : RecorderStep(t, MoverCalls)
    \/ \E d \in TickSteps :
          Tick(d) /\ UNCHANGED <<recorderVars, recognitionVars, searchVars,
                                 behaviourVars>>
SpecRecorder == InitUnobserved /\ [][NextRecorder]_vars

\* one thread calling into the ActionRecorder
NextRecorderSeq ==
    \/ RecorderStep(1, Calls)
    \/ \E d \in TickSteps :
          Tick(d) /\ UNCHANGED <<recorderVars, recognitionVars, searchVars,
                                 behaviourVars>>
SpecRecorderSeq == InitObserved /\ [][NextRecorderSeq]_vars

\* any sequence of calls into one RecognitionHandler
RecognitionCall(A) ==
    A /\ UNCHANGED <<recorderVars, searchVars, now, behaviourVars>>
NextRecognition ==
    \/ RecognitionCall(\E label \in LabelInputs : update_counter(label))
    \/ RecognitionCall(reset_counters)
    \/ RecognitionCall(decay_counters)
    \/ RecognitionCall(on_face_lost)
    \/ RecognitionCall(on_face_detected)
    \/ RecognitionCall(\E label \in Labels : set_active_label(label))
    \/ RecognitionCall(start_registration)
    \/ RecognitionCall(\E success \in BOOLEAN : handle_registration(success))
    \/ RecognitionCall(cancel_registration)
SpecRecognition == InitUnobserved /\ [][NextRecognition]_vars

\* the amounts by which the clock advances between two calls of a search
SearchTickSteps == {20, 30}

\* any sequence of calls into one SearchController
SearchCall(A) ==
    A /\ UNCHANGED <<recorderVars, recognitionVars, behaviourVars>>
NextSearch ==
    \/ SearchCall(reset)
    \/ SearchCall(is_in_rotation_pause)
    \/ SearchCall(update_rotation_time)
    \/ SearchCall(get_next_search_action)
    \/ SearchCall(advance_step)
    \/ SearchCall(is_search_complete)
    \/ SearchCall(on_face_found)
    \/ SearchCall(\E d \in SearchTickSteps : SearchTick(d))
SpecSearch == InitSearching /\ [][NextSearch]_vars


(***************************************************************************)
(*                    Properties of the ActionRecorder                     *)
(***************************************************************************)
\* the reversal the replay is to apply: left<->right, forward<->backward,
\* anything else unchanged
ReversedDirection(d) ==
    CASE d = "left" -> "right"
      [] d = "right" -> "left"
      [] d = "forward" -> "backward"
      [] d = "backward" -> "forward"
      [] OTHER -> d

\* the k-th replay of the run is the (N-k+1)-th recorded action, reversed
IsReplayOf(info, action) ==
    /\ info.type = action.type
    /\ info.duration = action.duration
    /\ info.direction = ReversedDirection(action.direction)

\* C1: once start_returning has succeeded on N >= 1 recorded actions, the
\* k-th execute_return_action replays the (N-k+1)-th recorded action with
\* its type and duration unchanged and its direction reversed; the call
\* that returns true comes after exactly N replays and leaves the history
\* empty and is_returning false.
C1_ReturnReplaysInReverse ==
    /\ run \in {"active", "done"} =>
          /\ Len(snapshot) >= 1
          /\ Len(replayed) <= Len(snapshot)
          /\ \A k \in 1..Len(replayed) :
                IsReplayOf(replayed[k], snapshot[Len(snapshot) - k + 1])
    /\ run = "done" =>
          /\ Len(replayed) = Len(snapshot)
          /\ ret = "true"
          /\ action_history = <<>>
          /\ ~is_returning

\* a run over two recorded actions, one of them with an unmapped direction,
\* has been replayed to its end
C1_Witness ==
    /\ run = "done"
    /\ Len(snapshot) = 2
    /\ snapshot[1].direction = "backward"
    /\ snapshot[2].direction = "up"
    /\ snapshot[1].duration # snapshot[2].duration

\* C2: an action in flight for at least 0.05 s leaves the slot only by being
\* appended to the history (clear() apart), and when start_action puts the
\* new action into the slot the earlier one has been finished: the slot is
\* empty.
C2_NoInFlightActionLost ==
    [][ /\ ( /\ current_action # NoAction
             /\ <<current_action', action_start_time'>>
                   # <<current_action, action_start_time>>
             /\ now - action_start_time >= MIN_DURATION
             /\ ~ClearStep )
           => action_history' =
                 Append(action_history,
                        [type |-> current_action.type,
                         direction |-> current_action.direction,
                         duration |-> now - action_start_time])
        /\ (\E t \in Threads : pc[t] = "sa_set" /\ pc'[t] = "idle")
           => current_action = NoAction
      ]_vars

\* thread 1, inside start_action with the lock, has just appended the
\* action that was in flight, while thread 2 waits in start_action
C2_Witness ==
    /\ pc[1] = "sa_set"
    /\ pc[2] = "sa_lock"
    /\ outcome = "kept"
    /\ action_history # <<>>

\* C3 (as claimed): while is_returning stays true no step of start_action,
\* stop_action, record, start_returning or execute_return_action changes
\* the history.
C3_HistoryFrozenWhileReturning ==
    [][ (is_returning /\ is_returning' /\ ~ClearStep)
           => action_history' = action_history ]_vars

\* C4: every entry of the history lasts at least 0.05 s; a record() call
\* with a shorter duration never reaches the append, and finishing an action
\* in flight for less than 0.05 s leaves the length of the history as it is.
C4_NoShortEntries ==
    /\ [](/\ \A i \in 1..Len(action_history) :
                action_history[i].duration >= MIN_DURATION
          /\ \A t \in Threads :
                pc[t] = "rc_lock" => arg[t].duration >= MIN_DURATION)
    /\ [][ ( /\ current_action # NoAction
             /\ current_action' = NoAction
             /\ now - action_start_time < MIN_DURATION
             /\ ~ClearStep )
           => Len(action_history') = Len(action_history) ]_vars

\* an action in flight for 0.04 s has just been dropped, the history
\* keeping its one earlier entry
C4_Witness ==
    /\ outcome = "dropped"
    /\ Len(action_history) = 1

(***************************************************************************)
(*                  Properties of the RecognitionHandler                   *)
(***************************************************************************)
\* C5: "familiar" and "stranger" are never both confirmed.
C5_NeverBothConfirmed ==
    ~(is_confirmed("familiar") /\ is_confirmed("stranger"))

\* "stranger" is confirmed at the end of a run of update_counter("stranger")
\* that began while "familiar" was confirmed
C5_Witness ==
    /\ is_confirmed("stranger")
    /\ streak_label = "stranger"
    /\ streak_start["familiar"] = EMOTION_CONFIRM_COUNT

\* C6: every counter is an integer in [0, EMOTION_CONFIRM_COUNT]; one
\* update_counter(label) raises label's counter by 1, saturating at
\* EMOTION_CONFIRM_COUNT, and lowers every other counter by 1, not below 0.
C6_CountersBoundedAndInhibiting ==
    /\ [](\A key \in Labels :
             recognition_counters[key] \in 0..EMOTION_CONFIRM_COUNT)
    /\ [][ \A label \in LabelInputs :
              update_counter(label) =>
                 \A key \in Labels :
                    recognition_counters'[key] =
                       IF key = label
                       THEN Min(recognition_counters[key] + 1,
                                EMOTION_CONFIRM_COUNT)
                       ELSE Max(recognition_counters[key] - 1, 0) ]_vars

\* three calls of update_counter("familiar") from familiar = 2, stranger = 1:
\* the familiar counter has saturated and the stranger counter has stopped
\* at 0
C6_Witness ==
    /\ streak_label = "familiar"
    /\ streak_len = 3
    /\ streak_start = [familiar |-> 2, stranger |-> 1]
    /\ recognition_counters["familiar"] = EMOTION_CONFIRM_COUNT
    /\ recognition_counters["stranger"] = 0

\* C7: after EMOTION_CONFIRM_COUNT consecutive update_counter(label) calls,
\* label familiar or stranger, from any reachable state, label is confirmed
\* and the other label is not.
C7_StreakConfirms ==
    (streak_len >= EMOTION_CONFIRM_COUNT /\ streak_label \in Labels) =>
        /\ is_confirmed(streak_label)
        /\ \A key \in Labels \ {streak_label} : ~is_confirmed(key)

\* EMOTION_CONFIRM_COUNT calls of update_counter("familiar") have been made
\* from a state whose stranger counter was saturated
C7_Witness ==
    /\ streak_label = "familiar"
    /\ streak_len = EMOTION_CONFIRM_COUNT
    /\ streak_start["stranger"] = EMOTION_CONFIRM_COUNT
    /\ streak_start["familiar"] = 0

\* C8: counted from a no-face counter of 0, each of the first
\* NO_FACE_RESET_COUNT-1 consecutive on_face_lost calls returns false, keeps
\* the active label and lowers every counter by 1, not below 0; the
\* NO_FACE_RESET_COUNT-th returns true, sets the active label to None and
\* zeroes the recognition counters and the no-face counter.
C8_FaceLostAfterResetCount ==
    [][ (on_face_lost /\ lost_run >= 0) =>
          IF lost_run + 1 < NO_FACE_RESET_COUNT
          THEN /\ rh_ret' = "false"
               /\ recognition_active_label' = recognition_active_label
               /\ \A key \in Labels :
                     recognition_counters'[key] =
                        Max(recognition_counters[key] - 1, 0)
          ELSE /\ rh_ret' = "true"
               /\ recognition_active_label' = "none"
               /\ \A key \in Labels : recognition_counters'[key] = 0
               /\ no_face_count' = 0 ]_vars

\* NO_FACE_RESET_COUNT-1 consecutive on_face_lost calls have returned false
\* and left the active label "familiar" in place
C8_Witness ==
    /\ lost_run = NO_FACE_RESET_COUNT - 1
    /\ rh_ret = "false"
    /\ recognition_active_label = "familiar"

(***************************************************************************)
(*                   Properties of the SearchController                    *)
(***************************************************************************)
\* the move scripted after k advance_step calls from reset()
ScriptedMove(k) ==
    IF k = 0
    THEN [action |-> "rotate_left", duration |-> SEARCH_45DEG_DURATION]
    ELSE IF k <= 2 * SEARCH_CYCLES
    THEN (IF k % 2 = 1
          THEN [action |-> "rotate_right",
                duration |-> 2 * SEARCH_45DEG_DURATION]
          ELSE [action |-> "rotate_left",
                duration |-> 2 * SEARCH_45DEG_DURATION])
    ELSE IF k = 2 * SEARCH_CYCLES + 1
    THEN [action |-> "rotate_right", duration |-> SEARCH_45DEG_DURATION]
    ELSE [action |-> "complete", duration |-> 0]

\* C9: after k advance_step calls from reset() get_next_search_action
\* returns rotate_left (45 deg) for k = 0, rotate_right / rotate_left
\* (90 deg) alternately for k = 1 .. 2*SEARCH_CYCLES, rotate_right (45 deg)
\* for k = 2*SEARCH_CYCLES+1 and complete from k = 2*SEARCH_CYCLES+2 on, and
\* not before; get_next_search_action changes neither step nor cycle, and
\* advance_step changes neither once the search is complete.
C9_SearchScript ==
    /\ [](/\ NextSearchAction(search_step) = ScriptedMove(advances)
          /\ SearchComplete <=> advances >= 2 * SEARCH_CYCLES + 2
          /\ sc_ret.action \in {"rotate_left", "rotate_right", "complete"}
                => sc_ret = ScriptedMove(advances))
    /\ [][ /\ get_next_search_action
              => UNCHANGED <<search_step, search_cycle>>
           /\ (advance_step /\ SearchComplete)
              => UNCHANGED <<search_step, search_cycle>> ]_vars

\* get_next_search_action has returned complete after exactly
\* 2*SEARCH_CYCLES+2 advance_step calls
C9_Witness ==
    /\ advances = 2 * SEARCH_CYCLES + 2
    /\ sc_ret.action = "complete"
    /\ search_step = 4

\* C10 (as claimed): step is one of 0, 1, 2, 3, complete and
\* 0 <= cycle < SEARCH_CYCLES.
C10_CycleBelowCycles ==
    /\ search_step \in 0..4
    /\ 0 <= search_cycle
    /\ search_cycle < SEARCH_CYCLES

\* C10 (amended): step is one of 0, 1, 2, 3, complete and
\* 0 <= cycle <= SEARCH_CYCLES, with cycle < SEARCH_CYCLES while step is
\* 0, 1 or 2.
C10_CycleAtMostCycles ==
    /\ search_step \in 0..4
    /\ 0 <= search_cycle
    /\ search_cycle <= SEARCH_CYCLES
    /\ search_step \in {0, 1, 2} => search_cycle < SEARCH_CYCLES

\* the last sweep has been finished: cycle has reached SEARCH_CYCLES
C10_Witness ==
    /\ search_step = 3
    /\ search_cycle = SEARCH_CYCLES
    /\ advances = 2 * SEARCH_CYCLES + 1

(***************************************************************************)
(*                  Properties of the face tracking                        *)
(***************************************************************************)
\* any sequence of frames handed to track_face_position
InitTracking ==
    /\ InitRecorder /\ run = "off"
    /\ InitRecognition /\ InitSearch /\ now = 0
    /\ InitTrack /\ motor_on \in BOOLEAN
    /\ InitInteraction /\ InitMain /\ InitRoutines
TrackCall(A) ==
    /\ A
    /\ UNCHANGED <<recorderVars, recognitionVars, searchVars, now>>
    /\ UNCHANGED <<interactionVars, mainVars, routineVars>>
NextTrack ==
    \/ TrackCall(\E offset \in Offsets : track_face_position(offset))
    \/ TrackCall(\E offset \in Offsets : track_face_position_no_motor(offset))
    \/ TrackCall(\E seen \in AfterPulse : track_until_centered_step(seen))
    \/ TrackCall(track_until_centered_exhausted)
SpecTrack == InitTracking /\ [][NextTrack]_vars

\* C11: once the face is marked centred, a frame handed to
\* track_face_position starts a correction only when it is the
\* FACE_CENTER_CONFIRM_COUNT-th consecutive off-centre frame with one offset
\* direction: earlier frames of the run return with no rotation pulse and
\* the count equal to the length of the run, a centred frame puts the count
\* back to 0, and a frame with the other direction restarts the count at 1.
C11_DebounceBeforeCorrection ==
    /\ [](track_pc = "idle" /\ face_centered
            => /\ offset_confirm_count = same_run
               /\ same_run < FACE_CENTER_CONFIRM_COUNT)
    /\ [](track_debounced /\ track_rotations > 0
            => same_run \in {0, FACE_CENTER_CONFIRM_COUNT})
    /\ [][track_pc = "idle" /\ motor_on /\ face_centered
            => IF IsCentered(track_offset')
               THEN /\ offset_confirm_count' = 0
                    /\ track_pc' = "idle" /\ track_rotations' = 0
               ELSE /\ OffsetDirection(track_offset') # run_dir
                         => offset_confirm_count' = 1
                    /\ same_run' < FACE_CENTER_CONFIRM_COUNT
                         => /\ track_pc' = "idle" /\ track_rotations' = 0
                            /\ face_centered'
                            /\ offset_confirm_count' = same_run'
                    /\ same_run' >= FACE_CENTER_CONFIRM_COUNT
                         => /\ same_run' = FACE_CENTER_CONFIRM_COUNT
                            /\ track_pc' = "rotating"
                            /\ current_direction'
                                   = OffsetDirection(track_offset')]_vars

\* the third off-centre frame to the right has started a correction, whose
\* first pulse has been issued
C11_Witness ==
    /\ track_debounced
    /\ track_pc = "rotating"
    /\ same_run = FACE_CENTER_CONFIRM_COUNT
    /\ run_dir = "right"
    /\ track_rotations = 1

(***************************************************************************)
(*                Properties of the InteractionHandler timers              *)
(***************************************************************************)
\* the amounts by which the clock advances between two calls
TimerTickSteps == {2000, 3500}

\* any sequence of calls of the timer methods of one InteractionHandler
InitTimers ==
    /\ InitRecorder /\ run = "off"
    /\ InitRecognition /\ InitSearch /\ now = 0
    /\ InitTrack /\ motor_on = TRUE
    /\ InitInteraction /\ InitMain /\ InitRoutines
TimerCall(A) ==
    /\ A
    /\ UNCHANGED <<recorderVars, recognitionVars, searchVars, now>>
    /\ UNCHANGED <<trackVars, mainVars, routineVars>>
NextTimers ==
    \/ TimerCall(start_voice_wake_emotion)
    \/ TimerCall(check_voice_wake_emotion_timeout)
    \/ TimerCall(start_familiar_interaction)
    \/ TimerCall(refresh_familiar_interaction)
    \/ TimerCall(check_familiar_timeout)
    \/ TimerCall(end_familiar_interaction)
    \/ TimerCall(start_stranger_observation)
    \/ TimerCall(refresh_stranger_observation)
    \/ TimerCall(check_stranger_timeout)
    \/ TimerCall(end_stranger_observation)
    \/ TimerCall(trigger_ultrasonic_scared)
    \/ TimerCall(check_ultrasonic_recovery(ULTRASONIC_RECOVERY_DELAY))
    \/ \E d \in TimerTickSteps :
          /\ TimerTick(d)
          /\ UNCHANGED <<recorderVars, recognitionVars, searchVars,
                         trackVars, mainVars, routineVars>>
SpecTimers == InitTimers /\ [][NextTimers]_vars

\* C14: a check of a timer returns true exactly when the timer is active
\* and its timeout has elapsed, and then deactivates it; an inactive timer
\* becomes active only by its start method, so that later checks return
\* false until then; refreshing an inactive timer does not activate it; and
\* starting, refreshing or checking a timer leaves the other timers alone.
C14_TimersFireOnceAndIndependently ==
    /\ [][TimerCall(check_voice_wake_emotion_timeout)
            => /\ ih_ret' = "true"
                    <=> /\ voice_wake_active
                        /\ now - voice_wake_time >= VOICE_WAKE_DURATION
               /\ voice_wake_active' = (voice_wake_active /\ ih_ret' = "false")
               /\ UNCHANGED <<FamiliarTimer, StrangerTimer,
                              UltrasonicTimer>>]_vars
    /\ [][TimerCall(check_familiar_timeout)
            => /\ ih_ret' = "true"
                    <=> /\ familiar_interaction_active
                        /\ now - familiar_interaction_time
                               >= FAMILIAR_IDLE_TIMEOUT
               /\ familiar_interaction_active' =
                      (familiar_interaction_active /\ ih_ret' = "false")
               /\ UNCHANGED <<VoiceWakeTimer, StrangerTimer,
                              UltrasonicTimer>>]_vars
    /\ [][TimerCall(check_stranger_timeout)
            => /\ ih_ret' = "true"
                    <=> /\ stranger_observation_active
                        /\ now - stranger_observation_time
                               >= STRANGER_TRACK_TIMEOUT
               /\ stranger_observation_active' =
                      (stranger_observation_active /\ ih_ret' = "false")
               /\ UNCHANGED <<VoiceWakeTimer, FamiliarTimer,
                              UltrasonicTimer>>]_vars
    /\ [][TimerCall(check_ultrasonic_recovery(ULTRASONIC_RECOVERY_DELAY))
            => /\ ih_ret' = "true"
                    <=> /\ ultrasonic_scared_active
                        /\ now - ultrasonic_scared_time
                               >= ULTRASONIC_RECOVERY_DELAY
               /\ ultrasonic_scared_active' =
                      (ultrasonic_scared_active /\ ih_ret' = "false")
               /\ UNCHANGED <<VoiceWakeTimer, FamiliarTimer,
                              StrangerTimer>>]_vars
    /\ [][/\ ~voice_wake_active /\ voice_wake_active'
               => TimerCall(start_voice_wake_emotion)
          /\ ~familiar_interaction_active /\ familiar_interaction_active'
               => TimerCall(start_familiar_interaction)
          /\ ~stranger_observation_active /\ stranger_observation_active'
               => TimerCall(start_stranger_observation)
          /\ ~ultrasonic_scared_active /\ ultrasonic_scared_active'
               => TimerCall(trigger_ultrasonic_scared)]_vars
    /\ [][/\ TimerCall(refresh_familiar_interaction)
               => /\ ~familiar_interaction_active => UNCHANGED FamiliarTimer
                  /\ UNCHANGED <<VoiceWakeTimer, StrangerTimer,
                                 UltrasonicTimer>>
          /\ TimerCall(refresh_stranger_observation)
               => /\ ~stranger_observation_active => UNCHANGED StrangerTimer
                  /\ UNCHANGED <<VoiceWakeTimer, FamiliarTimer,
                                 UltrasonicTimer>>]_vars
    /\ [][/\ TimerCall(start_voice_wake_emotion)
               => UNCHANGED <<FamiliarTimer, StrangerTimer, UltrasonicTimer>>
          /\ TimerCall(start_familiar_interaction)
               => UNCHANGED <<VoiceWakeTimer, StrangerTimer,
                              UltrasonicTimer>>
          /\ TimerCall(start_stranger_observation)
               => UNCHANGED <<VoiceWakeTimer, FamiliarTimer,
                              UltrasonicTimer>>
          /\ TimerCall(trigger_ultrasonic_scared)
               => UNCHANGED <<VoiceWakeTimer, FamiliarTimer,
                              StrangerTimer>>]_vars

\* the familiar timer, started at 20 s, has fired at 40 s, exactly
\* FAMILIAR_IDLE_TIMEOUT later, while the stranger timer started with it is
\* still running
C14_Witness ==
    /\ ih_ret = "true"
    /\ now = 2 * FAMILIAR_IDLE_TIMEOUT
    /\ ~familiar_interaction_active
    /\ familiar_interaction_time = FAMILIAR_IDLE_TIMEOUT
    /\ stranger_observation_active
    /\ stranger_observation_time = FAMILIAR_IDLE_TIMEOUT

(***************************************************************************)
(*             Properties of the main loop and its threads                 *)
(***************************************************************************)
Directions == {"left", "right"}
\* the corrections of follow_familiar_person
FollowMoves == {<<"rotate", "left">>, <<"rotate", "right">>,
                <<"move", "forward">>, <<"move", "backward">>}

InitRobot ==
    /\ InitRecorder /\ run = "off"
    /\ InitRecognition /\ InitSearch /\ now = 0
    /\ InitTrack /\ motor_on = TRUE
    /\ InitInteraction /\ InitMain /\ InitRoutines
MainStep(A) ==
    /\ A
    /\ UNCHANGED <<recorderRest, recognitionVars, searchVars, now,
                   trackVars, routineVars>>
NextMainButBack ==
    \/ MainStep(run_top)
    \/ MainStep(run_blocked)
    \/ MainStep(update_idle)
    \/ MainStep(\E found \in BOOLEAN : update_searching_pause(found))
    \/ MainStep(update_searching_complete)
    \/ MainStep(\E d \in Directions : update_searching_rotate(d))
    \/ MainStep(\E found \in BOOLEAN : update_searching_rotated(found))
    \/ MainStep(update_tracking_wait)
    \/ MainStep(update_tracking_lost)
    \/ MainStep(update_tracking_shocked)
    \/ MainStep(\E label \in Labels, d \in Directions :
                   update_tracking_confirmed(label, d))
    \/ MainStep(update_tracking_entered)
    \/ MainStep(update_familiar_stay_timeout)
    \/ MainStep(\E face \in BOOLEAN : update_familiar_stay_still(face))
    \/ MainStep(\E a \in FollowMoves : update_familiar_stay_follow(a[1], a[2]))
    \/ MainStep(update_familiar_stay_followed)
    \/ MainStep(update_shocked_timeout)
    \/ MainStep(\E left \in BOOLEAN : update_shocked_lost(left))
    \/ MainStep(update_shocked_watch)
    \/ MainStep(\E d \in Directions : update_shocked_track(d))
    \/ MainStep(update_shocked_tracked)
    \/ MainStep(update_stranger_observe)
    \/ MainStep(update_returning_done)
    \/ MainStep(update_returning_replay)
    \/ MainStep(update_returning_replayed)
    \/ MainStep(\E near \in BOOLEAN : run_returning(near))
    \/ MainStep(\E playing, near, stops \in BOOLEAN :
                   run_checks(playing, near, stops))
    \/ MainStep(run_no_event)
    \/ MainStep(\E long \in BOOLEAN : run_touch_end(long))
    \/ MainStep(on_voice_wake)
    \/ MainStep(\E c \in Commands : on_voice_command_refused(c))
    \/ MainStep(\E exists \in BOOLEAN : on_voice_command_sing(exists))
    \/ MainStep(on_voice_command_spin)
    \/ MainStep(do_spin_turn)
    \/ MainStep(do_spin_stop)
    \/ MainStep(do_spin_end)
    \/ MainStep(move_starts)
    \/ MainStep(move_stops)
    \/ \E d \in TimerTickSteps :
          /\ MainTick(d)
          /\ UNCHANGED <<recorderRest, recognitionVars, searchVars,
                         trackVars, routineVars>>
NextMain == NextMainButBack \/ MainStep(on_voice_command_back)
SpecMain == InitRobot /\ [][NextMain]_vars

\* the voice-listener thread is inside do_spin
InDoSpin == voice_pc \in {"spin_latched", "spinning", "spin_end"}

C13_OneThreadDrivesTheMotor ==
    [][motor_seq' # motor_seq =>
          /\ main_pc = "driving" => motor_by' = "main"
          /\ voice_pc = "spinning" => motor_by' = "voice"
          /\ mover_pc = "moving" => motor_by' = "mover"]_vars

\* the familiar-interaction timer was refreshed by the step
FamiliarTimerRefreshedNow ==
    familiar_interaction_active' /\ familiar_interaction_time' = now

\* C15: in FAMILIAR_STAY every touch_end event, every accepted voice
\* command that stays in the state, and every follow cycle that saw a face
\* sets the familiar-interaction timer to the current time; and the pass
\* in which the timer fires leaves FAMILIAR_STAY, for RETURNING when the
\* action history is not empty and for IDLE when it is.
C15_FamiliarTimerRefreshedAndFires ==
    /\ [][state = "FAMILIAR_STAY"
             /\ MainStep(\E long \in BOOLEAN : run_touch_end(long))
          => FamiliarTimerRefreshedNow]_vars
    /\ [][state = "FAMILIAR_STAY"
             /\ \/ MainStep(\E exists \in BOOLEAN :
                               on_voice_command_sing(exists))
                \/ MainStep(on_voice_command_spin)
          => FamiliarTimerRefreshedNow]_vars
    /\ [][state = "FAMILIAR_STAY"
             /\ \/ MainStep(update_familiar_stay_still(TRUE))
                \/ MainStep(update_familiar_stay_followed)
          => FamiliarTimerRefreshedNow]_vars
    /\ [][MainStep(update_familiar_stay_timeout)
          => /\ state = "FAMILIAR_STAY"
             /\ Elapsed(familiar_interaction_time, FAMILIAR_IDLE_TIMEOUT)
             /\ state' = IF action_history # <<>> THEN "RETURNING"
                                                  ELSE "IDLE"]_vars
    /\ [](state = "FAMILIAR_STAY" => familiar_interaction_active)

\* a pass of _update_shocked that saw the stranger's face: the face is
\* near the centre, or track_face_position has rotated towards it
ShockedTracks ==
    \/ MainStep(update_shocked_watch)
    \/ MainStep(update_shocked_tracked)
\* an accepted voice command
VoiceCommand ==
    \/ MainStep(\E c \in Commands : on_voice_command_refused(c))
    \/ MainStep(\E exists \in BOOLEAN : on_voice_command_sing(exists))
    \/ MainStep(on_voice_command_spin)
    \/ MainStep(on_voice_command_back)

\* C16 as stated: in SHOCKED, a pass in which the stranger's face is
\* detected and tracked sets the stranger-observation timer to the
\* current time.
C16_TrackingRefreshesStrangerTimer ==
    [][state = "SHOCKED" /\ stranger_observation_active /\ ShockedTracks
       => stranger_observation_time' = now]_vars

\* C16, amended: a pass of _update_shocked that tracks the stranger's face
\* leaves the stranger-observation timer as it is. The timer is set to
\* the current time only when the observation starts, by an accepted
\* voice command and by the backward move of _update_stranger_observe;
\* it fires only in a pass of _update_shocked, and it fires in the first
\* such pass at which STRANGER_TRACK_TIMEOUT has passed since then, which
\* sends the robot back (RETURNING, or IDLE with an empty history).
C16_StrangerTimerIgnoresTracking ==
    /\ [][ShockedTracks => UNCHANGED StrangerTimer]_vars
    /\ [][stranger_observation_time' # stranger_observation_time
          => /\ stranger_observation_time' = now
             /\ \/ MainStep(update_tracking_shocked)
                \/ MainStep(update_tracking_entered)
                \/ MainStep(update_stranger_observe)
                \/ VoiceCommand]_vars
    /\ [][stranger_observation_active /\ ~stranger_observation_active'
          => /\ MainStep(update_shocked_timeout)
             /\ now - stranger_observation_time >= STRANGER_TRACK_TIMEOUT
             /\ state' = IF action_history # <<>> THEN "RETURNING"
                                                  ELSE "IDLE"]_vars
    /\ [][/\ InUpdate("_update_shocked")
          /\ stranger_observation_active
          /\ now - stranger_observation_time >= STRANGER_TRACK_TIMEOUT
          /\ main_pc' # main_pc
          => MainStep(update_shocked_timeout)]_vars
\* the robot rotates towards the stranger's face while the timer, started
\* 20 s or more before, is still running
C16_Witness ==
    /\ state = "SHOCKED"
    /\ InRoutine("_update_shocked")
    /\ main_move.label = "stranger"
    /\ main_start = now
    /\ stranger_observation_active
    /\ now - stranger_observation_time >= FAMILIAR_IDLE_TIMEOUT

(***************************************************************************)
(*              Properties of approach_familiar_person                     *)
(***************************************************************************)
InitApproaching ==
    /\ InitRecorder /\ run = "off"
    /\ InitRecognition /\ InitSearch /\ now = 0
    /\ InitTrack /\ motor_on \in BOOLEAN
    /\ InitInteraction /\ InitMain
    /\ approach_pc = "idle"
    /\ start_time = 0
    /\ is_blocked = FALSE
    /\ is_moving = FALSE
    /\ obstacle_detected = FALSE
    /\ near_epochs \in SUBSET Epochs
    /\ stop_epoch \in 0 .. NEpochs
    /\ InitFollow /\ InitReplay /\ InitExtra
ApproachStep(A) ==
    /\ A
    /\ UNCHANGED <<recorderRest, recognitionVars, searchVars, trackVars,
                   interactionVars, followVars, replayVars, extraVars>>
NextApproach ==
    \/ ApproachStep(approach_familiar_person)
    \/ ApproachStep(approach_brake)
    \/ ApproachStep(approach_blocked)
    \/ ApproachStep(approach_resume)
    \/ ApproachStep(approach_vision)
    \/ ApproachStep(approach_return)
\* the thread that runs the call is scheduled again and again
SpecApproach ==
    InitApproaching /\ [][NextApproach]_vars /\ WF_vars(NextApproach)

\* the recorder's in-flight action of a forward burst
ForwardAction == [type |-> "move", direction |-> "forward"]
\* the step calls motor.forward()
ForwardCommanded ==
    \/ is_moving' /\ ~is_moving
    \/ motor_seq' # motor_seq /\ motor_cmd' = "forward"

\* C17: approach_familiar_person returns in every run, whatever the
\* sensors report: from the loop head the only step once max_approach_time
\* has elapsed is the way out. motor.forward() is called only in a cycle
\* whose ultrasonic reading was not near; it is called right after
\* start_action('move', 'forward'), the motor runs forward only while that
\* action is in flight, and the action is closed only after a stop or a
\* brake. On return the recorder has no action in flight and the last
\* command to the motor was a stop or a brake.
C17_ApproachTerminatesStopped ==
    /\ <>(approach_pc = "returned")
    /\ [][approach_pc = "loop" /\ now - start_time >= max_approach_time
          => approach_pc' = "returned"]_vars
    /\ [](approach_pc \in {"loop", "braked", "vision"} =>
             now - start_time < max_approach_time + RESUME_SLEEP
                                + YIELD_SLEEP)
    /\ [][ForwardCommanded
          => /\ ~obstacle_detected'
             /\ (~NearAt(now - start_time) \/ approach_pc = "vision")
             /\ current_action' = ForwardAction
             /\ action_start_time' = now]_vars
    /\ [](motor_cmd = "forward" => current_action = ForwardAction)
    /\ [][current_action = ForwardAction /\ current_action' = NoAction
          => (motor_on => motor_cmd' \in {"stop", "brake"})]_vars
    /\ [](approach_pc = "returned" =>
             /\ current_action = NoAction
             /\ (motor_on => motor_cmd \in {"stop", "brake"}))
\* the call has returned on the time limit, after a forward burst that an
\* obstacle ended and that never went away
C17_Witness ==
    /\ approach_pc = "returned"
    /\ now - start_time >= max_approach_time
    /\ motor_on
    /\ motor_cmd = "brake"
    /\ is_blocked
    /\ near_epochs = Epochs \ {0}
    /\ Len(action_history) = 1

(***************************************************************************)
(*               Properties of follow_familiar_person                      *)
(***************************************************************************)
InitFollowing ==
    /\ InitRecorder /\ run = "off"
    /\ InitRecognition /\ InitSearch /\ now = 0
    /\ InitTrack /\ motor_on \in BOOLEAN
    /\ InitInteraction /\ InitMain /\ InitRoutines
FollowStep(A) ==
    /\ A
    /\ UNCHANGED <<recorderVars, recognitionVars, searchVars, now, trackVars,
                   interactionVars, robotVars, tickVars, approachVars,
                   replayVars, extraVars>>
\* a cycle of follow_familiar_person that sees a face
FacePresentCycle ==
    FollowStep(\E o \in RawOffsets, e \in RawEyeDists :
                  follow_familiar_person(o, e))
NextFollow ==
    \/ FollowStep(follow_no_motor)
    \/ FollowStep(follow_face_lost)
    \/ FacePresentCycle
    \/ FollowStep(reset_follow_state)
SpecFollow == InitFollowing /\ [][NextFollow]_vars

\* the cycles with the calls they make
FollowCalls(A, calls) ==
    /\ A
    /\ follow_calls' = calls
    /\ UNCHANGED <<recorderVars, recognitionVars, searchVars, now, trackVars,
                   interactionVars, robotVars, tickVars, approachVars,
                   replayVars, awakeVars, lifeVars, centerVars,
                   listenerVars, shutdownVars, last_command>>
FaceCycle(raw_offset, raw_eye_dist) ==
    FollowCalls(follow_familiar_person(raw_offset, raw_eye_dist),
                BurstCalls(follow_burst'))
FacelessCycle ==
    \/ FollowCalls(follow_no_motor, <<>>)
    \/ FollowCalls(follow_face_lost, <<>>)
NextFollowCalls ==
    \/ FacelessCycle
    \/ \E o \in RawOffsets, e \in RawEyeDists : FaceCycle(o, e)
    \/ FollowCalls(reset_follow_state, follow_calls)
SpecFollowCalls == InitFollowing /\ [][NextFollowCalls]_vars

\* what the cycle is to issue on the smoothed values s: a rotation toward
\* the face beyond the tolerance, else forward below the deadband, backward
\* above it, nothing inside
Issued(s) ==
    IF s.offset > FACE_CENTER_TOLERANCE THEN <<"rotate", "right">>
    ELSE IF s.offset < -FACE_CENTER_TOLERANCE THEN <<"rotate", "left">>
    ELSE IF 100 * s.eye_dist < (100 - FOLLOW_MARGIN) * FACE_CLOSE_EYE_DISTANCE
    THEN <<"move", "forward">>
    ELSE IF 100 * s.eye_dist > (100 + FOLLOW_MARGIN) * FACE_CLOSE_EYE_DISTANCE
    THEN <<"move", "backward">>
    ELSE <<"none", "none">>
\* the calls of the cycle: none, or one drive command between start_action
\* and stop_action with the stop of the motor after it
OneBracketedAction(type, direction) ==
    /\ <<follow_burst'.type, follow_burst'.direction>> = <<type, direction>>
    /\ follow_calls' =
          IF type = "none"
          THEN <<>>
          ELSE <<"start_action",
                 IF type = "rotate" THEN "turn_" \o direction ELSE direction,
                 "sleep", "stop", "stop_action">>
    /\ type # "none" => motor_cmd' = "stop" /\ ~motor_is_moving'
    /\ type = "none" => UNCHANGED motorVars
\* a cycle without a face issues nothing and returns False
FacelessCycleIsIdle ==
    [][FacelessCycle
          => /\ follow_ret' = "false"
             /\ follow_calls' = <<>>
             /\ UNCHANGED motorVars]_vars

\* C40: every cycle that sees a face issues the one action its smoothed
\* offset and eye distance call for, rotation first, between start_action
\* and stop_action and with the motor stopped after it, and returns True;
\* a cycle without a face issues nothing and returns False
C40_FollowIssuesByPriority ==
    /\ [][\A o \in RawOffsets, e \in RawEyeDists :
            FaceCycle(o, e)
               => /\ follow_ret' = "true"
                  /\ LET a == Issued(Smoothed(o, e))
                     IN  OneBracketedAction(a[1], a[2])]_vars
    /\ FacelessCycleIsIdle
\* C40, amended: the same for the cycles that see a face with the counter
\* of consecutive actions at 6 or below; with the counter above 6 the
\* cycle issues nothing, whatever the offset and the distance, and returns
\* True
C40_FollowIssuesUnlessCooling ==
    /\ [][\A o \in RawOffsets, e \in RawEyeDists :
            FaceCycle(o, e)
               => /\ follow_ret' = "true"
                  /\ LET a == IF familiar_consecutive_actions > MAX_CONSECUTIVE
                               THEN <<"none", "none">>
                               ELSE Issued(Smoothed(o, e))
                     IN  OneBracketedAction(a[1], a[2])]_vars
    /\ FacelessCycleIsIdle
\* the face was off centre and too far: the cycle has rotated and not
\* moved
C40_Witness ==
    /\ follow_ret = "true"
    /\ smooth.set
    /\ smooth.offset > FACE_CENTER_TOLERANCE
    /\ 100 * smooth.eye_dist < (100 - FOLLOW_MARGIN) * FACE_CLOSE_EYE_DISTANCE
    /\ follow_calls = <<"start_action", "turn_right", "sleep", "stop",
                        "stop_action">>

\* C18: the consecutive-action counter never passes 7. A cycle that sees
\* a face with the counter above 6 drives and records nothing, sets the
\* counter to 0, clears the smoothing state and returns True; a cycle
\* with the counter at 6 or below that corrects adds one to it. So a run
\* of follow cycles holds 7 corrective actions at most between two
\* cooldowns or face-present cycles without an action.
C18_FollowCoolsDownAfterSeven ==
    /\ [](familiar_consecutive_actions \in 0 .. MAX_CONSECUTIVE + 1)
    /\ [](action_run <= MAX_CONSECUTIVE + 1)
    /\ [][FacePresentCycle /\ familiar_consecutive_actions > MAX_CONSECUTIVE
          => /\ follow_burst' = NoArg
             /\ UNCHANGED motorVars
             /\ familiar_consecutive_actions' = 0
             /\ smooth' = NoSmooth
             /\ follow_ret' = "true"]_vars
    /\ [][follow_burst' # NoArg /\ FacePresentCycle
          => /\ familiar_consecutive_actions <= MAX_CONSECUTIVE
             /\ familiar_consecutive_actions' =
                   familiar_consecutive_actions + 1]_vars
\* seven corrections in a row have been made and the cooldown is due
C18_Witness ==
    /\ action_run = MAX_CONSECUTIVE + 1
    /\ familiar_consecutive_actions = MAX_CONSECUTIVE + 1
    /\ follow_burst # NoArg
    /\ smooth.set

(***************************************************************************)
(*                  Properties of the return replay                        *)
(***************************************************************************)
\* the durations of the recorded actions, from the 0.05 s floor on
ReplayDurations == {5, 10, 15, 20, 30, 45}
RecordedActions ==
    [type : {"rotate"}, direction : {"left", "right"},
     duration : ReplayDurations]
    \cup [type : {"move"}, direction : {"forward", "backward"},
          duration : ReplayDurations]
\* start_returning has succeeded on a history of 1 to MaxHist actions
InitReplaying ==
    /\ \E n \in 1 .. MaxHist : action_history \in [1 .. n -> RecordedActions]
    /\ is_returning = TRUE
    /\ return_action_index = Len(action_history) - 1
    /\ current_action = NoAction
    /\ action_start_time = 0
    /\ lock = 0
    /\ pc = [t \in Threads |-> "idle"]
    /\ arg = [t \in Threads |-> NoArg]
    /\ ret = "none"
    /\ run = "off" /\ snapshot = <<>> /\ replayed = <<>> /\ outcome = "none"
    /\ InitRecognition /\ InitSearch /\ now = 0
    /\ InitTrack /\ motor_on \in BOOLEAN
    /\ InitInteraction /\ InitMain
    /\ InitApproach /\ InitFollow /\ InitExtra
    /\ replay_pc = "idle"
    /\ action_info = NoInfo
    /\ replay_step = 0
    /\ on_time = 0
    /\ replay_cmd = "none"
    /\ obstacle_near \in BOOLEAN
ReplayStep(A) ==
    /\ A
    /\ UNCHANGED <<recorderRest, recognitionVars, searchVars, trackVars,
                   interactionVars, approachVars, followVars, extraVars>>
NextReplay ==
    \/ ReplayStep(replay_finish)
    \/ ReplayStep(replay_begin)
    \/ ReplayStep(replay_pulse)
    \/ ReplayStep(replay_pulse_ends)
    \/ ReplayStep(replay_pulses_given)
    \/ ReplayStep(replay_move_ends)
    \/ ReplayStep(replay_advance)
    \/ ReplayStep(returning_check)
    \/ ReplayStep(obstacle_changes)
SpecReplay == InitReplaying /\ [][NextReplay]_vars

\* the step gives the motor a command that drives a move
MoveCommanded ==
    motor_seq' # motor_seq /\ motor_cmd' \in {"forward", "backward"}
\* the recorded action under the cursor
UnderCursor == action_history[return_action_index + 1]

\* C19: during the return a replayed move is not started while
\* check_obstacle_while_moving reports an obstacle, and the cursor does not
\* move past a move action while it does.
C19_ReplayPausesForObstacle ==
    /\ [][MoveCommanded => ~obstacle_near]_vars
    /\ [][/\ return_action_index' < return_action_index
          /\ action_info.type = "move"
          /\ motor_on
          => ~obstacle_near]_vars

\* the replay of the action under the cursor is over
ReplayOver == replay_pc # "stabilize" /\ replay_pc' = "stabilize"

\* C20: with the motor enabled, when the replay of a recorded action of
\* duration d is over the motor has been driven for d in all, by turn
\* pulses in the reversed direction for a rotation and by one command in
\* the reversed direction for a move.
C20_ReplayLastsRecordedDuration ==
    [][ReplayOver /\ motor_on
       => /\ on_time' = UnderCursor.duration
          /\ replay_cmd' =
                CommandOf(UnderCursor.type,
                          ReversedDirection(UnderCursor.direction))]_vars

(***************************************************************************)
(*                 Contracts of the ActionRecorder calls                   *)
(***************************************************************************)
\* thread t leaves the label `from' for the label `to' in this step
Leaves(t, from, to) == pc[t] = from /\ pc'[t] = to

C22_NoRecordingWhileReturning ==
    [][ \A t \in Threads :
           (is_returning /\ RecordingCall(t))
           => /\ pc'[t] = "idle"
              /\ ret' = "none"
              /\ UNCHANGED <<action_history, current_action,
                             action_start_time, return_action_index>> ]_vars

\* during a return over one recorded action, with an action in flight (put
\* there by the other thread before the flag was set), a call has just come
\* back without recording
C22_Witness ==
    /\ outcome = "refused"
    /\ is_returning
    /\ Len(action_history) = 1
    /\ return_action_index = 0
    /\ current_action # NoAction

(***************************************************************************)
(*                Contracts of the RecognitionHandler calls                *)
(***************************************************************************)
\* C23: on_face_detected sets the no-face counter to 0 and leaves the two
\* recognition counters, the active label and the registration fields as
\* they were; so the no-face counter is the number of on_face_lost calls
\* made since the last on_face_detected (or reset), and the on_face_lost
\* call that resets is the NO_FACE_RESET_COUNT-th of them.
C23_FaceDetectedResetsOnlyNoFaceCount ==
    /\ [][ on_face_detected
           => /\ no_face_count' = 0
              /\ UNCHANGED <<recognition_counters, recognition_active_label,
                             is_registering, register_name,
                             register_count>> ]_vars
    /\ [](no_face_count = lost_calls)
    /\ [][ (on_face_lost /\ rh_ret' = "true")
           => lost_calls + 1 = NO_FACE_RESET_COUNT ]_vars

\* in the middle of a registration, with a counter confirmed and a label
\* active, on_face_detected has just been called
C23_Witness ==
    /\ rh_call = "on_face_detected"
    /\ no_face_count = 0
    /\ is_registering
    /\ register_count = 2
    /\ recognition_counters["familiar"] = EMOTION_CONFIRM_COUNT
    /\ recognition_active_label = "familiar"

(***************************************************************************)
(*                    Properties of the awake timer                        *)
(***************************************************************************)
\* the amounts by which the clock advances between two calls
AwakeTickSteps == {1500, 3000}

AwakeCall(A) ==
    /\ A
    /\ UNCHANGED <<recorderVars, recognitionVars, searchVars, trackVars,
                   mainVars, approachVars, followVars, replayVars,
                   lifeVars, centerVars, listenerVars, lateVars>>

\* any sequence of calls of the awake methods of one InteractionHandler,
\* and of voice commands
NextAwake ==
    \/ AwakeCall(wake_up /\ UNCHANGED now)
    \/ AwakeCall(update_activity /\ UNCHANGED now)
    \/ AwakeCall(check_awake_timeout /\ UNCHANGED now)
    \/ AwakeCall(sleep /\ UNCHANGED now)
    \/ AwakeCall(command_extends_awake /\ UNCHANGED now)
    \/ AwakeCall(\E d \in AwakeTickSteps : AwakeTick(d))
SpecAwake == InitTimers /\ [][NextAwake]_vars

\* C24: check_awake_timeout returns true, clearing is_awake, only when the
\* robot is awake and both the last wake_up and the last activity (wake_up
\* or update_activity) lie AWAKE_TIMEOUT or more in the past; it returns
\* false, leaving is_awake as it was, whenever the robot is not awake or the
\* last activity is more recent than AWAKE_TIMEOUT: as long as activity
\* recurs within the timeout no check puts the robot to sleep.
C24_ActivityPostponesSleep ==
    [][ check_awake_timeout
        => /\ ih_ret' = "true"
              => /\ is_awake /\ ~is_awake'
                 /\ now - woke_at >= AWAKE_TIMEOUT
                 /\ now - active_at >= AWAKE_TIMEOUT
           /\ (~is_awake \/ now - active_at < AWAKE_TIMEOUT)
              => ih_ret' = "false"
           /\ ih_ret' = "false" => is_awake' = is_awake ]_vars

\* a check made AWAKE_TIMEOUT after wake_up has just returned false and left
\* the robot awake, because of an update_activity made in between
C24_Witness ==
    /\ ih_ret = "false"
    /\ is_awake
    /\ now - woke_at >= AWAKE_TIMEOUT
    /\ now - active_at < AWAKE_TIMEOUT
    /\ active_at > woke_at

(***************************************************************************)
(*              Properties of the passes of the main loop                  *)
(***************************************************************************)
\* the amounts by which the clock advances between two steps
LifeTickSteps == {50}
\* for how long centring and the approach block: no time, or a long time
BlockTimes == {0, LifeHorizon}

\* the robot is idle: never woken, or back from a wake cycle at the end of
\* which the camera had shown no face for some frames
InitLiving ==
    /\ InitRecorder /\ run = "off"
    /\ InitRecognitionRest /\ InitSearch /\ now = LifeHorizon
    /\ InitTrack /\ motor_on = TRUE
    /\ InitInteractionRest /\ InitMain /\ InitRoutines
    /\ \E woken \in BOOLEAN :
          /\ is_awake = woken
          /\ no_face_count = IF woken
                             THEN NO_FACE_RESET_COUNT - LifeLostRun
                             ELSE 0
LifeStep(A) ==
    /\ A
    /\ UNCHANGED <<recorderRest, rh_ret, rh_call, streak_label, streak_len,
                   streak_start, lost_run, lost_calls, sc_ret, advances,
                   now, trackVars, timerVars, blocking_action_active,
                   ih_ret, voice_paused, voice_pc, mover_pc, main_move,
                   main_start, motorVars, tickVars, approachVars,
                   followVars, replayVars, awakeVars, centerVars,
                   listenerVars, lateVars>>
Calm(A) == ~FaceStaysHidden /\ LifeStep(A)
\* the wake cycle: search, tracking, the reactions, the playback and the
\* return; a registration may start, and the recogniser finds no face
NextLife ==
    \/ Calm(pass_idle)
    \/ Calm(\E found \in BOOLEAN : pass_searching_pause(found))
    \/ Calm(pass_searching_complete)
    \/ Calm(\E found \in BOOLEAN, spent \in EarlyStops \cup
               {SEARCH_45DEG_DURATION, 2 * SEARCH_45DEG_DURATION} :
               pass_searching_rotate(found, spent))
    \/ Calm(pass_tracking_no_frame)
    \/ Calm(pass_tracking_lost)
    \/ Calm(\E label \in Labels, spent \in BlockTimes :
               pass_tracking_face(label, spent))
    \/ Calm(\E timeout \in BOOLEAN : pass_familiar_stay(timeout))
    \/ Calm(pass_shocked_timeout)
    \/ LifeStep(FaceHidesFromShocked /\ pass_shocked_lost)
    \/ Calm(\E face \in BOOLEAN : pass_shocked_watch(face))
    \/ Calm(pass_stranger_observe)
    \/ Calm(pass_returning)
    \/ LifeStep(\E playing \in BOOLEAN, touch \in Touches :
                   /\ FaceStaysHidden => touch = "none"
                   /\ pass_events(playing, touch, TRUE, FALSE))
    \/ Calm(voice_wake)
    \/ Calm(voice_command_friends)
    \/ Calm(voice_command_sing)
    \/ Calm(voice_command_back)
    \/ Calm(\E d \in LifeTickSteps : LifeTick(d))
SpecLife == InitLiving /\ [][NextLife]_vars

\* the registration: woken by a touch, the robot searches up to the first
\* pause of the script, tracks, reacts and returns, while samples are taken
NextEnrol ==
    \/ Calm(pass_idle)
    \/ Calm(\E found \in BOOLEAN : pass_searching_pause(found))
    \/ Calm(\E found \in BOOLEAN, spent \in EarlyStops \cup
               {SEARCH_45DEG_DURATION} :
               search_step = 0 /\ pass_searching_rotate(found, spent))
    \/ Calm(pass_tracking_no_frame)
    \/ Calm(pass_tracking_lost)
    \/ Calm(\E label \in Labels, spent \in BlockTimes :
               pass_tracking_face(label, spent))
    \/ Calm(\E timeout \in BOOLEAN : pass_familiar_stay(timeout))
    \/ Calm(pass_shocked_timeout)
    \/ LifeStep(FaceHidesFromShocked /\ pass_shocked_lost)
    \/ Calm(\E face \in BOOLEAN : pass_shocked_watch(face))
    \/ Calm(pass_stranger_observe)
    \/ Calm(pass_returning)
    \/ LifeStep(\E frame_ok, success \in BOOLEAN, touch \in Touches :
                   /\ FaceStaysHidden
                         => touch = "none" /\ frame_ok /\ ~success
                   /\ pass_events(FALSE, touch, frame_ok, success))
    \/ Calm(voice_command_friends)
    \/ Calm(\E d \in LifeTickSteps : LifeTick(d))
SpecEnrol == InitLiving /\ [][NextEnrol]_vars

(***************************************************************************)
(*          Properties of the registration and of the reactions            *)
(***************************************************************************)
\* C25: whenever the state becomes TRACKING -- a face found during a
\* rotation of the search or in the pause after it, or the registration
\* completed in whatever state -- both recognition counters are 0 in the
\* state entered.
C25_TrackingEnteredWithZeroCounters ==
    [][state # "TRACKING" /\ state' = "TRACKING"
          => recognition_counters' = ZeroCounters]_vars
\* the registration completes in FAMILIAR_STAY and the state becomes TRACKING
C25_Witness ==
    /\ state = "TRACKING"
    /\ state_left = "FAMILIAR_STAY"
    /\ completions = 1
    /\ ~is_registering
    /\ recognition_counters = ZeroCounters

\* C27: STRANGER_OBSERVE is a one-shot flinch: whenever the state goes back
\* from STRANGER_OBSERVE to SHOCKED, the backward move has been made exactly
\* once since STRANGER_OBSERVE was entered.
C27_FlinchOncePerEntry ==
    [][state = "STRANGER_OBSERVE" /\ state' = "SHOCKED"
          => flinches' = 1]_vars

\* C29: after start_registration, on_complete is called exactly once, in
\* the pass in which the successful samples reach SAMPLES_PER_PERSON, and
\* that pass clears is_registering and the sample counter; a failed sample
\* does not advance the counter; a sample is taken only in a pass whose
\* frame_count is a multiple of SAMPLE_INTERVAL.
C29_SampleStep ==
    \E touch \in Touches, frame_ok \in BOOLEAN :
        pass_events(FALSE, touch, frame_ok, FALSE)
C29_CompletesOnceAtTheLastSample ==
    /\ [](/\ completions <= 1
          /\ is_registering
                => /\ completions = 0
                   /\ samples = register_count
                   /\ samples < SAMPLES_PER_PERSON
          /\ completions = 1
                => samples = SAMPLES_PER_PERSON /\ ~is_registering)
    /\ [][/\ completions' = completions + 1
                <=> (samples' = SAMPLES_PER_PERSON /\ samples' # samples)
          /\ completions' = completions + 1
                => /\ ~is_registering'
                   /\ register_count' = 0
                   /\ is_registering
          /\ samples' = samples + 1
                => /\ frame_count % SAMPLE_INTERVAL = 0
                   /\ is_registering
          /\ C29_SampleStep
                => UNCHANGED <<register_count, samples, completions,
                               is_registering>>]_vars
\* the fifth sample has just completed a registration started in SHOCKED
C29_Witness ==
    /\ completions = 1
    /\ samples = SAMPLES_PER_PERSON
    /\ ~is_registering
    /\ register_count = 0
    /\ state = "TRACKING"
    /\ state_left = "SHOCKED"
    /\ frame_count = 1

(***************************************************************************)
(*                       Properties of the wake                            *)
(***************************************************************************)
\* what a wake that takes effect leaves
C26_Woken ==
    /\ state' = "SEARCHING"
    /\ action_history' = <<>>
    /\ current_action' = NoAction
    /\ is_awake'
    /\ search_step' = 0
    /\ search_cycle' = 0
\* what a wake without effect leaves alone
C26_Ignored == UNCHANGED <<action_history, search_step, search_cycle>>
\* a pass in which a touch of 0.1 s or more has ended: any such pass, one
\* during which no audio plays, one during which audio plays
C26_Touch ==
    \E playing, frame_ok, success \in BOOLEAN :
        pass_events(playing, "long", frame_ok, success)
C26_TouchInSilence ==
    \E playing, frame_ok, success \in BOOLEAN :
        /\ ~(is_playing_audio /\ playing)
        /\ pass_events(playing, "long", frame_ok, success)
C26_TouchOnPlayback ==
    /\ is_playing_audio
    /\ \E frame_ok, success \in BOOLEAN :
          pass_events(TRUE, "long", frame_ok, success)
C26_VoiceWake ==
    voice_wake
       => IF state = "IDLE" /\ ~is_registering /\ ~is_returning
          THEN C26_Woken
          ELSE C26_Ignored /\ UNCHANGED state

\* C26 as stated: a wake (the wake phrase, or a touch of 0.1 s or more)
\* takes effect only in IDLE (for the wake phrase: and neither registering
\* nor returning): it then clears the history and the in-flight action, sets
\* the awake flag, resets the search progress and moves to SEARCHING; in
\* every other state it leaves the state, the history and the search
\* progress unchanged.
C26_WakeOnlyInIdle ==
    [][/\ C26_VoiceWake
       /\ C26_Touch
             => IF state = "IDLE"
                THEN C26_Woken
                ELSE C26_Ignored /\ UNCHANGED state]_vars

\* C26 amended: the wake phrase as stated; a touch of 0.1 s or more while
\* audio plays only stops the playback, in IDLE too; while no audio plays
\* it wakes in IDLE, moves SHOCKED to STRANGER_OBSERVE, and leaves every
\* other state unchanged; outside IDLE the history and the search progress
\* are left unchanged.
C26_WakeInIdleAndSilence ==
    [][/\ C26_VoiceWake
       /\ C26_TouchOnPlayback
             => C26_Ignored /\ UNCHANGED state /\ ~is_playing_audio'
       /\ C26_TouchInSilence
             => IF state = "IDLE"
                THEN C26_Woken
                ELSE /\ C26_Ignored
                     /\ state' = IF state = "SHOCKED"
                                 THEN "STRANGER_OBSERVE"
                                 ELSE state]_vars
\* a touch has woken a robot that is back from an earlier cycle, in which
\* it saw a face and was told to register it
C26_Witness ==
    /\ heard = "woke"
    /\ state = "SEARCHING"
    /\ state_left = "IDLE"
    /\ is_registering
    /\ no_face_count = 0
    /\ search_step = 0
    /\ search_cycle = 0
    /\ ~face_found_in_search
    /\ action_history = <<>>

(***************************************************************************)
(*                       Properties of center_face                         *)
(***************************************************************************)
\* the offsets of the faces in the frames
CenterOffsets == {-30, -17, 16, 30}
CenterFrames == {<<>>} \cup {<<offset>> : offset \in CenterOffsets}

CenterCall(A) ==
    /\ A
    /\ UNCHANGED <<current_action, action_start_time, is_returning,
                   return_action_index, recorderRest, recognitionVars,
                   searchVars, now, trackVars, interactionVars, mainVars,
                   approachVars, followVars, replayVars, awakeVars,
                   lifeVars, listenerVars, lateVars>>
\* one call of center_face from _update_tracking, the history empty or not
NextCenter ==
    \/ CenterCall(\E offset \in CenterOffsets : center_face(offset))
    \/ CenterCall(center_retry)
    \/ CenterCall(\E frame \in CenterFrames : center_pulse(frame))
    \/ CenterCall(center_pass_ends)
SpecCenter == InitRobot /\ [][NextCenter]_vars

\* the record of a pass: its direction and the total time of its pulses
C28_PassRecord ==
    [type |-> "rotate", direction |-> cf_direction,
     duration |-> cf_step * FACE_CENTER_STEP_DURATION]
\* a pulse after which the frame shows a face within the tolerance, or on
\* the other side of the middle
C28_StoppingPulse ==
    \E offset \in CenterOffsets :
        /\ center_pulse(<<offset>>)
        /\ \/ Abs(offset) <= FACE_CENTER_TOLERANCE
           \/ (offset > 0) # (cf_direction = "right")
\* C28: center_face ends after at most 3 passes of at most
\* int(FACE_CENTER_TIMEOUT / (step + pause)) pulses each; a pass stops right
\* after the pulse at which the face seen is within the tolerance or its
\* offset has changed sign, and after such an overshoot the next pass turns
\* the other way; each pass, having made at least one pulse, appends one
\* rotate action with its direction and the total time of its pulses;
\* center_face returns false only when a pass ends without a face seen
\* after any of its pulses.
C28_CenterFaceIsBounded ==
    /\ [](/\ cf_retry <= MAX_CENTER_RETRIES
          /\ Len(action_history) <= MAX_CENTER_RETRIES
          /\ Len(action_history) <= cf_retry + 1
          /\ cf_step <= FACE_CENTER_TIMEOUT \div (FACE_CENTER_STEP_DURATION
                                                   + FACE_CENTER_STEP_PAUSE)
          /\ cf_pc = "pulse" => cf_retry < MAX_CENTER_RETRIES
          /\ cf_ret = "false"
                => /\ last_face_rect = <<>>
                   /\ cf_step = FACE_CENTER_TIMEOUT
                                  \div (FACE_CENTER_STEP_DURATION
                                          + FACE_CENTER_STEP_PAUSE)
          /\ cf_pc = "done" => cf_ret \in {"true", "false"})
    /\ [][/\ C28_StoppingPulse => cf_pc' = "record"
          /\ cf_pc = "retry" /\ cf_pc' = "pulse" /\ cf_overshot
                => cf_direction' # cf_direction
          /\ cf_pc = "record" /\ cf_pc' # "record"
                => /\ cf_step >= 1
                   /\ action_history' = Append(action_history,
                                               C28_PassRecord)
          /\ cf_pc # "record" => UNCHANGED action_history]_vars
\* three passes, each overshooting or falling short, the last one seeing
\* the face on the other side once more
C28_Witness ==
    /\ cf_pc = "done"
    /\ cf_ret = "true"
    /\ cf_retry = MAX_CENTER_RETRIES
    /\ Len(action_history) = 3
    /\ action_history[1].direction = "right"
    /\ action_history[2].direction = "left"
    /\ action_history[3].direction = "right"
    /\ action_history[2].duration = 2 * FACE_CENTER_STEP_DURATION
    /\ cf_overshot

(***************************************************************************)
(*                    Properties of the voice listener                     *)
(***************************************************************************)
ListenerStep(A) ==
    /\ A
    /\ UNCHANGED <<recorderVars, recognitionVars, searchVars, now, trackVars,
                   timerVars, ih_ret, state, fearVars, threadVars,
                   main_move, main_start, motorVars, tickVars, approachVars,
                   followVars, replayVars, awakeVars, lifeVars, centerVars,
                   lateVars>>
NextListener ==
    \/ ListenerStep(listen_paused)
    \/ ListenerStep(listen_ends)
    \/ ListenerStep(\E said \in Segments : listen_record(said))
    \/ ListenerStep(listen_deliver)
    \/ ListenerStep(\E familiar \in BOOLEAN : callback_begins(familiar))
    \/ ListenerStep(\E file_exists, idle \in BOOLEAN :
                       callback_returns(file_exists, idle))
    \/ ListenerStep(callback_raises)
    \/ ListenerStep(playback_ends)
    \/ ListenerStep(awake_times_out)
    \/ ListenerStep(listener_stop)
SpecListener == InitRobot /\ [][NextListener]_vars

\* C30: if a callback raises, the exception is caught inside the loop, the
\* running flag is left as it is, and the loop goes on to its next cycle
\* of recording and transcribing, in which later wake phrases and commands
\* are delivered: the listener is not left paused, unless a playback is on
\* whose end resumes it.
C30_ListenerHearsAfterFailure ==
    [][callback_raises
          => /\ listener_running' = listener_running
             /\ listener_pc' = "top"
             /\ voice_paused' => is_playing_audio']_vars

(***************************************************************************)
(*                       Properties of the shutdown                        *)
(***************************************************************************)
ProcessStep(A) ==
    /\ A
    /\ UNCHANGED <<recorderVars, recognitionVars, searchVars, now, trackVars,
                   interactionVars, mainVars, approachVars, followVars,
                   replayVars, awakeVars, lifeVars, centerVars,
                   listenerVars, last_command, follow_calls>>
NextProcess ==
    \/ ProcessStep(\E q \in BOOLEAN : loop_commands(q))
    \/ ProcessStep(\E quit \in BOOLEAN : loop_body(quit))
    \/ ProcessStep(loop_raises)
    \/ ProcessStep(loop_exit)
    \/ ProcessStep(keyboard_interrupt)
    \/ ProcessStep(\E present \in BOOLEAN : cleanup_next(present))
    \/ ProcessStep(cleanup_raises)
SpecProcess == InitRobot /\ [][NextProcess]_vars

\* C31: whenever the main loop has stopped -- by the quit event, the debug
\* command q, a keyboard interrupt or an error raised inside a pass --
\* cleanup has been called before the process ends.
C31_CleanupAfterEveryStop == proc_pc = "ended" => cleanups > 0

(***************************************************************************)
(*                  Properties of a search that finds nobody               *)
(***************************************************************************)
\* the life model with the history the return started from (snapshot) and
\* the action_info of every replay (replayed) kept as observations
SweepStep(A) ==
    /\ A
    /\ UNCHANGED <<lock, pc, arg, ret, run, outcome, rh_ret, rh_call,
                   streak_label, streak_len, streak_start, lost_run,
                   lost_calls, sc_ret, advances, now, trackVars, timerVars,
                   blocking_action_active, ih_ret, voice_paused, voice_pc,
                   mover_pc, main_move, main_start, motorVars, tickVars,
                   approachVars, followVars, replayVars, awakeVars,
                   centerVars, listenerVars, lateVars>>
Unlogged(A) == SweepStep(A /\ UNCHANGED <<snapshot, replayed>>)
sweep_complete ==
    /\ pass_searching_complete
    /\ snapshot' = action_history'
    /\ replayed' = <<>>
sweep_returning ==
    /\ pass_returning
    /\ replayed' = IF return_action_index < 0 THEN replayed
                   ELSE Append(replayed, get_next_return_action)
    /\ UNCHANGED snapshot

\* the passes of the main thread; no frame shows a face
SweepPass ==
    \/ Unlogged(pass_idle)
    \/ Unlogged(pass_searching_pause(FALSE))
    \/ Unlogged(\E spent \in {SEARCH_45DEG_DURATION,
                                2 * SEARCH_45DEG_DURATION} :
                   pass_searching_rotate(FALSE, spent))
    \/ SweepStep(sweep_complete)
    \/ SweepStep(sweep_returning)
    \/ Unlogged(\E playing \in BOOLEAN, touch \in Touches :
                   pass_events(playing, touch, TRUE, FALSE))
\* the voice-listener thread
SweepVoice ==
    \/ Unlogged(voice_wake)
    \/ Unlogged(voice_command_friends)
SweepTick == Unlogged(\E d \in LifeTickSteps : LifeTick(d))
NextSweep == SweepPass \/ SweepVoice \/ SweepTick
\* the loop of run() goes on to its next pass, and time passes
SpecSweep ==
    /\ InitLiving /\ [][NextSweep]_vars
    /\ WF_vars(SweepPass) /\ WF_vars(SweepTick)

\* the rotations of the script, in its order
SweepScript ==
    <<[type |-> "rotate", direction |-> "left",
       duration |-> SEARCH_45DEG_DURATION]>>
    \o [k \in 1..(2 * SEARCH_CYCLES) |->
          [type |-> "rotate",
           direction |-> IF k % 2 = 1 THEN "right" ELSE "left",
           duration |-> 2 * SEARCH_45DEG_DURATION]]
    \o <<[type |-> "rotate", direction |-> "right",
          duration |-> SEARCH_45DEG_DURATION]>>

WatchPass ==
    \/ LifeStep(pass_idle)
    \/ LifeStep(\E found \in BOOLEAN : pass_searching_pause(found))
    \/ LifeStep(\E found \in BOOLEAN, spent \in EarlyStops \cup
                   {SEARCH_45DEG_DURATION} :
                   search_step = 0 /\ pass_searching_rotate(found, spent))
    \/ LifeStep(pass_tracking_no_frame)
    \/ LifeStep(pass_tracking_lost)
    \/ LifeStep(\E label \in Labels, spent \in BlockTimes :
                   pass_tracking_face(label, spent))
    \/ LifeStep(\E touch \in Touches :
                   pass_events(FALSE, touch, TRUE, FALSE))
WatchTick == LifeStep(\E d \in LifeTickSteps : LifeTick(d))
NextWatch == WatchPass \/ LifeStep(voice_wake) \/ WatchTick
\* the loop of run() goes on to its next pass, and time passes
SpecWatch ==
    /\ InitLiving /\ [][NextWatch]_vars
    /\ WF_vars(WatchPass) /\ WF_vars(WatchTick)

\* C33: the robot does not stay in TRACKING forever: whatever the frames
\* of the passes give (no frame, no face, a familiar face, a stranger),
\* TRACKING is left in the end.
C33_TrackingIsLeft == (state = "TRACKING") ~> (state # "TRACKING")

(***************************************************************************)
(*                       Properties of the return                          *)
(***************************************************************************)
\* the registration, and the command "back" heard at any point
NextBack == NextEnrol \/ Calm(voice_command_back)
SpecBack == InitLiving /\ [][NextBack]_vars

\* C34: at the top of every pass the state is RETURNING exactly when
\* is_returning is set; the return starts with the cursor on the last
\* recorded action, every pass in RETURNING replays one action and keeps
\* the history, whatever is heard, touched or registered meanwhile, and
\* the only state that follows RETURNING is IDLE, entered in the pass after
\* the last replay.
C34_ReturnEndsInIdle ==
    /\ [](main_pc = "top" => (state = "RETURNING" <=> is_returning))
    /\ [][state # "RETURNING" /\ state' = "RETURNING"
            => /\ action_history' # <<>>
               /\ return_action_index' = Len(action_history') - 1]_vars
    /\ [][state = "RETURNING"
            => \/ /\ state' = "RETURNING"
                  /\ action_history' = action_history
                  /\ return_action_index' \in {return_action_index,
                                                return_action_index - 1}
               \/ /\ state' = "IDLE"
                  /\ return_action_index = -1]_vars

(***************************************************************************)
(*             Properties of the timers of the three reactions             *)
(***************************************************************************)
\* the two threads, with the writes of "back" as separate steps of the
\* voice thread
NextBackSteps ==
    \/ NextMainButBack
    \/ MainStep(on_voice_command_back_ends)
    \/ MainStep(on_voice_command_back_returns)
SpecBackSteps == InitRobot /\ [][NextBackSteps]_vars

\* C36: at the top of every pass, FAMILIAR_STAY has the familiar timer
\* active, and SHOCKED and STRANGER_OBSERVE have the stranger timer active
C36_StateHasItsTimer ==
    main_pc = "top" =>
       /\ state = "FAMILIAR_STAY" => familiar_interaction_active
       /\ state \in {"SHOCKED", "STRANGER_OBSERVE"}
             => stranger_observation_active

(***************************************************************************)
(*                   Properties of WallE.on_voice_command                  *)
(***************************************************************************)
\* what neither thread writes here
commandRest ==
    <<recorderRest, searchVars, trackVars, approachVars, followVars,
      replayVars, awakeVars, lifeVars, centerVars, listenerVars,
      shutdownVars, follow_calls, recognition_counters,
      recognition_active_label, no_face_count, rh_ret, rh_call, streak_label, streak_len,
      streak_start, lost_run, lost_calls>>
\* the voice thread handles `command'
Hears(command, A) ==
    /\ A
    /\ last_command' = command
    /\ UNCHANGED <<commandRest, now>>
\* any other step; the passes of the main thread are followed as long as
\* no registration runs
Unheard(A) == Hears("none", A /\ UNCHANGED registrationVars)
MainPass(A) == ~is_registering /\ Unheard(A)

AllCommands == Commands \cup {"friends"}

\* the two threads and the four commands; nothing comes near the sensors
\* and the screen is not touched
NextCommand ==
    \/ MainPass(run_top)
    \/ MainPass(run_blocked)
    \/ MainPass(update_idle)
    \/ MainPass(\E found \in BOOLEAN : update_searching_pause(found))
    \/ MainPass(update_searching_complete)
    \/ MainPass(\E d \in Directions : update_searching_rotate(d))
    \/ MainPass(\E found \in BOOLEAN : update_searching_rotated(found))
    \/ MainPass(update_tracking_wait)
    \/ MainPass(update_tracking_lost)
    \/ MainPass(update_tracking_shocked)
    \/ MainPass(\E label \in Labels, d \in Directions :
                   update_tracking_confirmed(label, d))
    \/ MainPass(update_tracking_entered)
    \/ MainPass(update_familiar_stay_timeout)
    \/ MainPass(\E face \in BOOLEAN : update_familiar_stay_still(face))
    \/ MainPass(update_shocked_timeout)
    \/ MainPass(\E left \in BOOLEAN : update_shocked_lost(left))
    \/ MainPass(update_shocked_watch)
    \/ MainPass(update_returning_done)
    \/ MainPass(update_returning_replay)
    \/ MainPass(update_returning_replayed)
    \/ MainPass(run_returning(FALSE))
    \/ MainPass(\E playing \in BOOLEAN : run_checks(playing, FALSE, FALSE))
    \/ MainPass(run_no_event)
    \/ MainPass(on_voice_wake)
    \/ \E c \in AllCommands :
          Hears(c, on_voice_command_ignored /\ UNCHANGED registrationVars)
    \/ \E c \in Commands :
          Hears(c, on_voice_command_refused(c) /\ UNCHANGED registrationVars)
    \/ Hears("sing", /\ \E exists \in BOOLEAN : on_voice_command_sing(exists)
                     /\ UNCHANGED registrationVars)
    \/ Hears("spin", on_voice_command_spin /\ UNCHANGED registrationVars)
    \/ Hears("back", on_voice_command_back /\ UNCHANGED registrationVars)
    \/ Hears("friends", on_voice_command_friends)
    \/ Unheard(do_spin_turn)
    \/ Unheard(do_spin_stop)
    \/ Unheard(do_spin_end)
    \/ \E d \in TimerTickSteps :
          /\ MainTick(d)
          /\ last_command' = "none"
          /\ UNCHANGED <<commandRest, registrationVars>>
SpecCommand == InitRobot /\ [][NextCommand]_vars

\* C38: a command heard while the robot is asleep or returning changes
\* nothing.  A command heard while it is awake and not returning refreshes
\* the familiar and the stranger timer if they run; sing, spin and back
\* heard outside FAMILIAR_STAY change nothing else: not the state, the
\* motor, the audio, the recorder or the registration; friends starts a
\* registration in whatever state it is heard.
C38_CommandGate ==
    [][last_command' # "none" =>
          LET awake == is_awake /\ ~is_returning
          IN  /\ ~awake
                    => UNCHANGED <<mainVars, interactionVars, recorderCore,
                                   registrationVars>>
              /\ awake /\ familiar_interaction_active
                    => familiar_interaction_time' = now
              /\ awake /\ stranger_observation_active
                    => stranger_observation_time' = now
              /\ awake /\ last_command' \in Commands
                 /\ state # "FAMILIAR_STAY"
                    => UNCHANGED <<mainVars, flagVars, recorderCore,
                                   registrationVars, voice_paused,
                                   familiar_interaction_active,
                                   stranger_observation_active>>
              /\ awake /\ last_command' = "friends"
                    => is_registering' /\ register_count' = 0]_vars
\* "spin" was refused in SHOCKED, where the stranger timer was refreshed
C38_Witness ==
    /\ last_command = "spin"
    /\ state = "SHOCKED"
    /\ stranger_observation_active
    /\ stranger_observation_time = now
    /\ now > 0

\* C39: when the state becomes IDLE again the robot is no longer awake
C39_IdleIsAsleep ==
    [][state # "IDLE" /\ state' = "IDLE" => ~is_awake']_vars

\* C37: the backward flinch of STRANGER_OBSERVE is appended to the history
\* as a move backward of 1.5 s
C37_FlinchIsRecorded ==
    [][flinches' # flinches
          => action_history' =
                Append(action_history,
                       [type |-> "move", direction |-> "backward",
                        duration |-> FLINCH])]_vars

\* C35: whenever the state is IDLE the action history is empty and no
\* action is in flight, so that the path of a wake cycle starts where the
\* robot went idle.
C35_IdleHasNoHistory ==
    state = "IDLE" => action_history = <<>> /\ current_action = NoAction

====
